---- MODULE Spec2Model ----
(***************************************************************************)
(* A model of two passes of the code generator's register allocation:      *)
(*   - regalloc/minimal.rs   : the minimal register allocator              *)
(*   - regalloc/splitting.rs : live range splitting around calls           *)
(* The function being compiled is the state; one action per handler.       *)
(* Entities (Ebb, Inst, Value, StackSlot) are numbered 1, 2, ... ; 0 is    *)
(* used for None.                                                          *)
(***************************************************************************)
EXTENDS Naturals, Sequences, FiniteSets, TLC

VARIABLES
    (* ---- the function (ir::Function) ---- *)
    layout,          \* func.layout: the EBBs in layout order
    ebbInsts,        \* func.layout: per EBB, its instructions in order
    ebbParams,       \* func.dfg.ebb_params
    insts,           \* func.dfg[inst]: opcode, args, results, destination, encoding
    vtype,           \* func.dfg.value_type
    locations,       \* func.locations
    num_slots,       \* func.stack_slots (number of slots made so far)
    signature,       \* func.signature: ABI of params and returns
    (* ---- analyses handed to the passes ---- *)
    cfg_preds,       \* cfg.pred_iter(ebb): predecessor branches, per EBB
    idom,            \* domtree.idom(ebb): a branch instruction, or 0
    liveness,        \* per call: the values live through it; per value: affinity
    (* ---- minimal.rs Context / run() locals ---- *)
    pc,              \* position of the running pass
    debug_build,     \* whether debug_assert! is compiled in
    new_blocks,      \* Context.new_blocks
    regs,            \* Regs.registers: the free register units
    topo,            \* the topological EBB order, as reset
    topo_next,       \* index of the next EBB the order hands out
    cur_ebb,         \* cursor: EBB
    cur_inst,        \* cursor: instruction (0 = at the top of cur_ebb)
    trace,           \* history: register events of the last rewritten instruction
    visits,          \* history: the instructions handed to visit_inst, in order
    func0,           \* history: the function as it was when the pass started
    (* ---- splitting.rs run() locals ---- *)
    bbgraph,         \* Context.bbgraph: per EBB, its BBs (branch instructions)
    renamed,         \* Renamed: sequence of RenamedValue
    df,              \* AllDF
    rn               \* rename_uses locals: key index, idf, worklist, i

funcVars  == <<layout, ebbInsts, ebbParams, insts, vtype, locations, num_slots>>
inputVars == <<signature, cfg_preds, idom, liveness, debug_build, func0>>
allocVars == <<new_blocks, regs, topo, topo_next, cur_ebb, cur_inst, trace, visits>>
splitVars == <<bbgraph, renamed, df, rn>>
vars == <<funcVars, inputVars, allocVars, splitVars, pc>>

----------------------------------------------------------------------------
(* Bounds of the model. *)
NumGPR == 3          \* register units of class GPR: 1..NumGPR

----------------------------------------------------------------------------
(* Sequence helpers. *)
Range(s) == {s[i] : i \in 1..Len(s)}
IndexOf(s, x) == IF x \in Range(s) THEN CHOOSE i \in 1..Len(s) : s[i] = x ELSE 0
InsertAt(s, i, x) == SubSeq(s, 1, i - 1) \o <<x>> \o SubSeq(s, i, Len(s))
Min(S) == CHOOSE x \in S : \A y \in S : x <= y
(* The one element of a singleton: {e(x) : x \in {v}} is e of the value v,  *)
(* computed once, as a local variable of the code is.                       *)
The(S) == CHOOSE x \in S : TRUE

----------------------------------------------------------------------------
(* ir: values, locations, instructions. *)
Unassigned == [k |-> "Unassigned", n |-> 0]
Reg(r)     == [k |-> "Reg", n |-> r]
Stack(ss)  == [k |-> "Stack", n |-> ss]

is_flags(ty) == ty = "iflags"

Inst(op, args, res, dest, enc) ==
    [op |-> op, args |-> args, res |-> res, dest |-> dest, enc |-> enc,
     table |-> <<>>]

(* Opcode predicates. *)
is_ghost(op)      == op = "iconcat"
is_call(op)       == op = "call"
is_branch(op)     == op \in {"jump", "brz", "brnz", "br_icmp", "brif", "brff",
                             "indirect_jump_table_br"}
is_terminator(op) == op \in {"jump", "return", "fallthrough_return", "trap",
                             "indirect_jump_table_br"}
(* Number of fixed (non-EBB-argument) operands of a branch. *)
num_fixed_args(op) == CASE op = "jump" -> 0
                        [] op = "br_icmp" -> 2
                        [] OTHER -> 1
inst_variable_args(i) ==
    SubSeq(i.args, num_fixed_args(i.op) + 1, Len(i.args))

(* layout.inst_ebb *)
inst_ebb(ei, inst) == CHOOSE e \in 1..Len(ei) : inst \in Range(ei[e])

----------------------------------------------------------------------------
(* isa: register units and operand constraints. *)
GPR == 1..NumGPR
RFlags == NumGPR + 1
RegClass(rc) == IF rc = "GPR" THEN GPR ELSE {RFlags}
allocatable_registers == GPR \cup {RFlags}

Con(kind, rc, n) == [kind |-> kind, rc |-> rc, n |-> n]
CReg      == Con("Reg", "GPR", 0)
CStack    == Con("Stack", "GPR", 0)
CTied(i)  == Con("Tied", "GPR", i)
CFixed(r) == Con("FixedReg", "GPR", r)
CFixedTied(r) == Con("FixedTied", "GPR", r)
CFlags    == Con("FixedReg", "FLAG", RFlags)

Constraints(ins, outs) ==
    [ins |-> ins, outs |-> outs,
     fixed_ins  |-> \E k \in 1..Len(ins) : ins[k].kind \in {"FixedReg", "FixedTied"},
     fixed_outs |-> \E k \in 1..Len(outs) : outs[k].kind \in {"FixedReg", "FixedTied"}]

(* encinfo.operand_constraints(encoding): the recipes of the target. Tied(i)  *)
(* names the tied operand on the other side, counted from 1.                  *)
operand_constraints(enc) ==
    CASE enc = "rr"      -> Constraints(<<CReg, CReg>>, <<CReg>>)
      [] enc = "tied"    -> Constraints(<<CTied(1), CReg>>, <<CTied(1)>>)
      [] enc = "shift"   -> Constraints(<<CTied(1), CFixed(2)>>, <<CTied(1)>>)
      [] enc = "mulx"    -> Constraints(<<CFixedTied(1), CReg>>,
                                        <<CFixedTied(1), CFixed(3)>>)
      [] enc = "rcmp"    -> Constraints(<<CReg, CReg>>, <<CFlags>>)
      [] enc = "rout"    -> Constraints(<<CTied(1), CReg>>, <<CTied(1), CFlags>>)
      [] enc = "stk"     -> Constraints(<<CStack>>, <<CReg>>)
      [] enc = "brnz"    -> Constraints(<<CReg>>, <<>>)
      [] enc = "brif"    -> Constraints(<<CFlags>>, <<>>)
      [] enc = "br_icmp" -> Constraints(<<CReg, CReg>>, <<>>)
      [] enc = "jt"      -> Constraints(<<CReg>>, <<>>)
      [] enc = "spill"   -> Constraints(<<CReg>>, <<CStack>>)
      [] enc = "fill"    -> Constraints(<<CStack>>, <<CReg>>)
      [] OTHER           -> Constraints(<<>>, <<>>)

----------------------------------------------------------------------------
(* The mutable part of the function and of the allocator, as one record, so  *)
(* that a handler is a composition of steps. ok = FALSE: the handler         *)
(* panicked.                                                                 *)
Machine == [layout |-> layout, ebbInsts |-> ebbInsts, ebbParams |-> ebbParams,
            insts |-> insts, vtype |-> vtype, locations |-> locations,
            num_slots |-> num_slots, regs |-> regs, trace |-> <<>>,
            new_blocks |-> new_blocks, ok |-> TRUE]

Panic(m) == [m EXCEPT !.ok = FALSE]
Ev(ev, reg, k) == [ev |-> ev, reg |-> reg, k |-> k]

(* dfg: make a value / an instruction; the entity made last. *)
make_value(m, ty) == [m EXCEPT !.vtype = Append(@, ty),
                               !.locations = Append(@, Unassigned)]
last_value(m) == Len(m.vtype)
make_inst(m, data) == [m EXCEPT !.insts = Append(@, data)]
last_inst(m) == Len(m.insts)
(* cursor insertion: before the instruction the cursor is at / after one. *)
insert_inst(m, new, before) ==
    LET e == inst_ebb(m.ebbInsts, before)
    IN [m EXCEPT !.ebbInsts[e] = InsertAt(@, IndexOf(@, before), new)]
(* The new instruction is put before `after`, not behind it. *)
insert_inst_ahead(m, new, after) ==
    LET e == inst_ebb(m.ebbInsts, after)
    IN [m EXCEPT !.ebbInsts[e] = InsertAt(@, IndexOf(@, after), new)]
insert_inst_after(m, new, after) ==
    LET e == inst_ebb(m.ebbInsts, after)
    IN [m EXCEPT !.ebbInsts[e] = InsertAt(@, IndexOf(@, after) + 1, new)]
(* No slot is made: the slot made last is handed out again. *)
make_spill_slot_again(m) == m
make_spill_slot(m) == [m EXCEPT !.num_slots = @ + 1]
(* self.cur.ins().fill(arg) / .spill(arg): a new instruction with a new      *)
(* result of arg's type, inserted before the instruction the cursor is at.    *)
ins_unary(m, op, arg, at) ==
    insert_inst(make_inst(make_value(m, m.vtype[arg]),
                          Inst(op, <<arg>>, <<Len(m.vtype) + 1>>, 0, op)),
                Len(m.insts) + 1, at)

(* Regs (RegisterSet of free units). take yields 0 when the class is empty. *)
(* The lowest unit of the class is handed out, free or not. *)
first_free_or_not(free, rc) == Min(RegClass(rc))
first_free(free, rc) ==
    IF free \cap RegClass(rc) = {} THEN 0 ELSE Min(free \cap RegClass(rc))
take_specific(m, rc, r) ==
    [m EXCEPT !.regs = @ \ {r}, !.trace = Append(@, Ev("take_specific", r, 0))]
take(m, rc) ==
    LET r == first_free(m.regs, rc)
    IN IF r = 0 THEN Panic(m)
       ELSE [m EXCEPT !.regs = @ \ {r}, !.trace = Append(@, Ev("take", r, 0))]
free(m, rc, r) ==
    [m EXCEPT !.regs = @ \cup {r}, !.trace = Append(@, Ev("free", r, 0))]

----------------------------------------------------------------------------
(* visit_plain_inst, step by step. *)

(* "Reserve any fixed input registers." *)
RECURSIVE ReserveFixedIns(_, _, _)
ReserveFixedIns(m, cons, k) ==
    IF k > Len(cons.ins) THEN m
    ELSE ReserveFixedIns(
             IF cons.ins[k].kind \in {"FixedReg", "FixedTied"}
             THEN take_specific(m, cons.ins[k].rc, cons.ins[k].n) ELSE m,
             cons, k + 1)

(* A fixed operand given unit 1 whatever its constraint names. *)
RegArgUnit1(k, arg, rc, reg, is_tied) ==
    [k |-> k, arg |-> arg, rc |-> rc, reg |-> 1, is_tied |-> is_tied]
RegArg(k, arg, rc, reg, is_tied) ==
    [k |-> k, arg |-> arg, rc |-> rc, reg |-> reg, is_tied |-> is_tied]

(* "Assign all input registers." st = [m, reg_args] *)
RECURSIVE AssignIns(_, _, _, _)
AssignIns(st, cons, args, k) ==
    IF k > Len(args) \/ ~st.m.ok THEN st
    ELSE IF debug_build /\ st.m.locations[args[k]].k # "Stack"
                        /\ ~is_flags(st.m.vtype[args[k]])
    THEN [st EXCEPT !.m = Panic(@)]
    ELSE IF k > Len(cons.ins) THEN [st EXCEPT !.m = Panic(@)]
    ELSE LET c == cons.ins[k] IN
      IF c.kind = "Stack" THEN AssignIns(st, cons, args, k + 1)
      ELSE IF c.kind \in {"FixedReg", "FixedTied"}
      THEN AssignIns([st EXCEPT !.reg_args =
                         Append(@, RegArg(k, args[k], c.rc, c.n, c.kind = "FixedTied"))],
                     cons, args, k + 1)
      ELSE LET m1 == take(st.m, c.rc)
               r  == first_free(st.m.regs, c.rc)
           IN AssignIns([m |-> m1,
                         reg_args |-> IF m1.ok
                            THEN Append(st.reg_args,
                                        RegArg(k, args[k], c.rc, r, c.kind = "Tied"))
                            ELSE st.reg_args],
                        cons, args, k + 1)

(* "Insert fills, assign locations, update the instruction, free registers." *)
FillArg(m, inst, ra) ==
    IF is_flags(m.vtype[ra.arg])
    THEN [m EXCEPT !.locations[ra.arg] = Reg(ra.reg)]
    ELSE [ins_unary(m, "fill", ra.arg, inst)
             EXCEPT !.locations[Len(m.vtype) + 1] = Reg(ra.reg),
                    !.insts[inst].args[ra.k] = Len(m.vtype) + 1,
                    !.trace = Append(@, Ev("fill", ra.reg, ra.k))]
(* The register of an input is freed after its fill, tied or not. *)
FreeArgAlways(m, ra) == free(m, ra.rc, ra.reg)
FreeArg(m, ra) == IF ra.is_tied THEN m ELSE free(m, ra.rc, ra.reg)
RECURSIVE EmitFills(_, _, _, _)
EmitFills(m, inst, reg_args, j) ==
    IF j > Len(reg_args) THEN m
    ELSE EmitFills(FreeArg(FillArg(m, inst, reg_args[j]), reg_args[j]),
                   inst, reg_args, j + 1)

(* "Reserve any fixed output registers that are not also tied." *)
RECURSIVE ReserveFixedOuts(_, _, _)
ReserveFixedOuts(m, cons, k) ==
    IF k > Len(cons.outs) THEN m
    ELSE ReserveFixedOuts(
             IF cons.outs[k].kind = "FixedReg"
             THEN take_specific(m, cons.outs[k].rc, cons.outs[k].n) ELSE m,
             cons, k + 1)

RegResult(k, result, rc, reg) == [k |-> k, result |-> result, rc |-> rc, reg |-> reg]

(* The register of the tied input: the first reg_args entry for that input. *)
TiedHit(reg_args, input) ==
    LET hits == {j \in 1..Len(reg_args) : reg_args[j].k = input}
    IN IF hits = {} THEN 0 ELSE Min(hits)

(* "Assign the output registers." st = [m, reg_results] *)
RECURSIVE AssignOuts(_, _, _, _, _)
AssignOuts(st, cons, results, reg_args, k) ==
    IF k > Len(results) \/ ~st.m.ok THEN st
    ELSE IF k > Len(cons.outs) THEN [st EXCEPT !.m = Panic(@)]
    ELSE LET c == cons.outs[k] IN
      IF c.kind = "Stack" THEN [st EXCEPT !.m = Panic(@)]
      ELSE IF c.kind \in {"FixedReg", "FixedTied"}
      THEN AssignOuts([st EXCEPT !.reg_results =
                          Append(@, RegResult(k, results[k], c.rc, c.n))],
                      cons, results, reg_args, k + 1)
      ELSE IF c.kind = "Tied"
      THEN LET h == TiedHit(reg_args, c.n) IN
           IF h = 0 \/ (debug_build /\ ~reg_args[h].is_tied)
           THEN [st EXCEPT !.m = Panic(@)]
           ELSE AssignOuts([st EXCEPT !.reg_results =
                               Append(@, RegResult(k, results[k], reg_args[h].rc,
                                                   reg_args[h].reg))],
                           cons, results, reg_args, k + 1)
      ELSE LET m1 == take(st.m, c.rc)
               r  == first_free(st.m.regs, c.rc)
           IN AssignOuts([m |-> m1,
                          reg_results |-> IF m1.ok
                             THEN Append(st.reg_results, RegResult(k, results[k], c.rc, r))
                             ELSE st.reg_results],
                         cons, results, reg_args, k + 1)

(* "Insert spills, assign locations, update the instruction, free registers." *)
(* st = [m, last] *)
SpillResult(st, inst, rr) ==
    IF is_flags(st.m.vtype[rr.result])
    THEN [m |-> [st.m EXCEPT !.locations[rr.result] = Reg(rr.reg)], last |-> st.last]
    ELSE [m |-> [make_spill_slot(
                     insert_inst_after(
                         make_inst(make_value(st.m, st.m.vtype[rr.result]),
                                   Inst("spill", <<Len(st.m.vtype) + 1>>, <<rr.result>>,
                                        0, "spill")),
                         Len(st.m.insts) + 1, st.last))
                    EXCEPT !.insts[inst].res[rr.k] = Len(st.m.vtype) + 1,
                           !.locations[Len(st.m.vtype) + 1] = Reg(rr.reg),
                           !.locations[rr.result] = Stack(st.m.num_slots + 1),
                           !.trace = Append(@, Ev("spill", rr.reg, rr.k))],
          last |-> Len(st.m.insts) + 1]
(* The register of a result stays taken after its spill. *)
FreeResultKeeps(st, rr) == st
FreeResult(st, rr) == [st EXCEPT !.m = free(@, rr.rc, rr.reg)]
RECURSIVE EmitSpills(_, _, _, _)
EmitSpills(st, inst, reg_results, j) ==
    IF j > Len(reg_results) THEN st
    ELSE EmitSpills(FreeResult(SpillResult(st, inst, reg_results[j]), reg_results[j]),
                    inst, reg_results, j + 1)

(* lines 391-416: fills, then the fixed output registers. s is [m, reg_args]. *)
plain_fills(s, inst, cons) ==
    IF ~s.m.ok THEN s
    ELSE [s EXCEPT !.m = IF cons.fixed_outs
                         THEN ReserveFixedOuts(EmitFills(@, inst, s.reg_args, 1), cons, 1)
                         ELSE EmitFills(@, inst, s.reg_args, 1)]

(* The cursor is left at the instruction, before its spills. *)
plain_spills_stay(s, inst) ==
    IF ~s.m.ok THEN [m |-> s.m, last |-> inst]
    ELSE [EmitSpills([m |-> s.m, last |-> inst], inst, s.reg_results, 1) EXCEPT !.last = inst]
(* lines 443-465. s is [m, reg_results]. *)
plain_spills(s, inst) ==
    IF ~s.m.ok THEN [m |-> s.m, last |-> inst]
    ELSE EmitSpills([m |-> s.m, last |-> inst], inst, s.reg_results, 1)

(* lines 418-441. s is [m, reg_args]. *)
plain_outs(s, inst, cons, results) ==
    IF ~s.m.ok THEN [m |-> s.m, last |-> inst]
    ELSE plain_spills(AssignOuts([m |-> s.m, reg_results |-> <<>>], cons, results,
                                 s.reg_args, 1), inst)

(* lines 352-389 *)
plain_ins(m, inst, cons) ==
    AssignIns([m |-> IF cons.fixed_ins THEN ReserveFixedIns(m, cons, 1) ELSE m,
               reg_args |-> <<>>], cons, m.insts[inst].args, 1)

(* visit_plain_inst: yields [m, last]; the cursor ends at last. *)
visit_plain_inst(m, inst) ==
    plain_outs(plain_fills(plain_ins(m, inst, operand_constraints(m.insts[inst].enc)),
                           inst, operand_constraints(m.insts[inst].enc)),
               inst, operand_constraints(m.insts[inst].enc), m.insts[inst].res)

----------------------------------------------------------------------------
(* The analyses the passes are handed: flowgraph, dominator tree, topological *)
(* order. F is a function: [layout, ebbInsts, insts, ...].                    *)

AllInsts(F) == UNION {Range(F.ebbInsts[e]) : e \in Range(F.layout)}
first_inst(F, e) == F.ebbInsts[e][1]

(* Branch targets of an instruction. *)
Targets(F, i) ==
    IF ~is_branch(F.insts[i].op) THEN {}
    ELSE IF F.insts[i].op = "indirect_jump_table_br" THEN Range(F.insts[i].table)
    ELSE {F.insts[i].dest}

(* Control flow between instructions. *)
Succs(F, i) ==
    LET e == inst_ebb(F.ebbInsts, i)
        p == IndexOf(F.ebbInsts[e], i)
    IN {first_inst(F, t) : t \in Targets(F, i)}
       \cup (IF ~is_terminator(F.insts[i].op) /\ p < Len(F.ebbInsts[e])
             THEN {F.ebbInsts[e][p + 1]} ELSE {})

(* Instructions reachable from the instructions of `from` without entering an *)
(* instruction of `avoid`.                                                    *)
RECURSIVE ReachAvoiding(_, _, _)
ReachAvoiding(F, seen, avoid) ==
    LET more == (UNION {Succs(F, i) : i \in seen}) \ (seen \cup avoid)
    IN IF more = {} THEN seen ELSE ReachAvoiding(F, seen \cup more, avoid)

EntryInst(F) == first_inst(F, F.layout[1])

(* d dominates n: every path from the entry to n passes d. *)
Reachable(F) == ReachAvoiding(F, {EntryInst(F)}, {})
Dominates(F, d, n) ==
    d = n \/ (d # EntryInst(F) => n \notin ReachAvoiding(F, {EntryInst(F)}, {d}))

(* cfg.pred_iter(ebb): the branches to ebb, by instruction number. *)
RECURSIVE SortedSeq(_)
SortedSeq(S) == IF S = {} THEN <<>> ELSE <<Min(S)>> \o SortedSeq(S \ {Min(S)})
ComputePreds(F) ==
    [e \in 1..Len(F.ebbInsts) |->
        LET bs == SortedSeq({i \in AllInsts(F) : e \in Targets(F, i)})
        IN [k \in 1..Len(bs) |->
               [ebb |-> inst_ebb(F.ebbInsts, bs[k]), inst |-> bs[k]]]]

(* domtree.idom(ebb): the closest branch that dominates the top of ebb, 0 when *)
(* there is none (the entry block).                                            *)
ComputeIdom(F) ==
    [e \in 1..Len(F.ebbInsts) |->
        LET n  == first_inst(F, e)
            ds == {d \in Reachable(F) \ {n} :
                      is_branch(F.insts[d].op) /\ Dominates(F, d, n)}
        IN IF ds = {} \/ e = F.layout[1] \/ n \notin Reachable(F) THEN 0
           ELSE CHOOSE d \in ds : \A d2 \in ds : Dominates(F, d2, d)]

(* TopoOrder: layout order, except that an EBB comes after its dominators. *)
RECURSIVE DomChain(_, _, _, _)
DomChain(ei, dom, e, visited) ==
    IF e \in visited THEN <<>>
    ELSE (IF dom[e] = 0 THEN <<>>
          ELSE DomChain(ei, dom, inst_ebb(ei, dom[e]), visited)) \o <<e>>
RECURSIVE TopoFrom(_, _, _, _, _)
TopoFrom(lay, ei, dom, i, acc) ==
    IF i > Len(lay) THEN acc
    ELSE TopoFrom(lay, ei, dom, i + 1, acc \o DomChain(ei, dom, lay[i], Range(acc)))
TopoOrder(lay, ei, dom) == TopoFrom(lay, ei, dom, 1, <<>>)

----------------------------------------------------------------------------
(* minimal.rs: the other handlers. *)

(* visit_copy: "a copy is simply a sharing of location". *)
visit_copy(m, inst) ==
    [m EXCEPT !.locations[m.insts[inst].res[1]] = m.locations[m.insts[inst].args[1]]]

(* classify_branch: target 0 is None; ok = FALSE is the panic. *)
classify_branch(op) ==
    CASE op = "indirect_jump_table_br" ->
             [ok |-> TRUE, target |-> FALSE, side_exit |-> FALSE, has_argument |-> TRUE]
      [] op = "jump" ->
             [ok |-> TRUE, target |-> TRUE, side_exit |-> FALSE, has_argument |-> FALSE]
      [] op \in {"brz", "brnz", "br_icmp", "brif", "brff"} ->
             [ok |-> TRUE, target |-> TRUE, side_exit |-> TRUE, has_argument |-> TRUE]
      [] OTHER ->
             [ok |-> FALSE, target |-> FALSE, side_exit |-> FALSE, has_argument |-> FALSE]

(* The new EBB is laid out behind the last EBB. *)
make_empty_ebb_at_end(m) ==
    [m EXCEPT !.ebbInsts = Append(@, <<>>),
              !.ebbParams = Append(@, <<>>),
              !.layout = Append(@, Len(m.ebbInsts) + 1),
              !.new_blocks = TRUE]
(* make_empty_ebb: a new EBB, laid out before the last EBB. *)
make_empty_ebb(m) ==
    LET new_ebb == Len(m.ebbInsts) + 1
    IN [m EXCEPT !.ebbInsts = Append(@, <<>>),
                 !.ebbParams = Append(@, <<>>),
                 !.layout = InsertAt(@, Len(@), new_ebb),
                 !.new_blocks = TRUE]

(* The side exit loses its EBB arguments but keeps its target. *)
rewrite_side_exit_in_place(m, inst, new_ebb) ==
    [m EXCEPT !.insts[inst].args = SubSeq(@, 1, num_fixed_args(m.insts[inst].op))]
(* rewrite_side_exit: the branch keeps its condition operands, loses its EBB  *)
(* arguments and jumps to new_ebb.                                            *)
rewrite_side_exit(m, inst, new_ebb) ==
    IF m.insts[inst].op \in {"brz", "brnz", "br_icmp", "brif", "brff"}
    THEN [m EXCEPT !.insts[inst].args = SubSeq(@, 1, num_fixed_args(m.insts[inst].op)),
                   !.insts[inst].dest = new_ebb]
    ELSE Panic(m)

(* One fill/spill pair of visit_branch, for argument k of the branch inst:    *)
(* lines 298-302, m is the function after regs.take(rc).                      *)
BranchPairLocs(m, inst, k, target_arg, temp, dest, rc, reg) ==
    IF ~m.ok THEN m
    ELSE free([m EXCEPT !.locations[temp] = Reg(reg),
                        !.locations[dest] = m.locations[target_arg],
                        !.insts[inst].args[k] = dest,
                        !.trace = @ \o <<Ev("fill", reg, k), Ev("spill", reg, k)>>],
              rc, reg)
BranchPair(m, inst, k, arg, target_arg) ==
    LET temp == Len(m.vtype) + 1
        dest == Len(m.vtype) + 2
        rc   == operand_constraints("spill").ins[1].rc
    IN BranchPairLocs(
           take(ins_unary(ins_unary(m, "fill", arg, inst), "spill", temp, inst), rc),
           inst, k, target_arg, temp, dest, rc, first_free(m.regs, rc))

RECURSIVE BranchPairs(_, _, _, _)
BranchPairs(m, inst, arginfo, j) ==
    IF j > Len(arginfo) \/ ~m.ok THEN m
    ELSE BranchPairs(BranchPair(m, inst, j, arginfo[j].arg, arginfo[j].target_arg),
                     inst, arginfo, j + 1)

(* ebb_params(target).zip(inst_args(inst)): both as they are before the loop. *)
ArgInfo(m, inst, target) ==
    LET n == IF Len(m.ebbParams[target]) < Len(m.insts[inst].args)
             THEN Len(m.ebbParams[target]) ELSE Len(m.insts[inst].args)
    IN [k \in 1..n |-> [arg |-> m.insts[inst].args[k],
                        target_arg |-> m.ebbParams[target][k]]]

(* lines 281-304: the fill/spill pairs, before `inst`. *)
visit_branch_args(m, inst, target) ==
    BranchPairs(m, inst, ArgInfo(m, inst, target), 1)

(* lines 264-267 and 278: the branch's own operands. r is [m, last]. *)
visit_branch_inst(m, inst, has_argument) ==
    IF has_argument /\ m.ok THEN visit_plain_inst(m, inst)
    ELSE [m |-> m, last |-> inst]

(* lines 269-276: the jump of the new block, and the pairs before it. *)
side_exit_jump(r, new_ebb, target, jump_args) ==
    IF ~r.m.ok THEN [m |-> r.m, cur |-> r.last]
    ELSE [m |-> visit_branch_args(
                    [r.m EXCEPT !.insts = Append(@, Inst("jump", jump_args, <<>>, target, "jump")),
                                !.ebbInsts[new_ebb] = Append(@, Len(r.m.insts) + 1)],
                    Len(r.m.insts) + 1, target),
          cur |-> r.last]

(* lines 253-276: the side exit to a target with parameters. n is the         *)
(* function with the new EBB.                                                  *)
visit_side_exit(n, inst, target, jump_args, has_argument) ==
    side_exit_jump(
        visit_branch_inst(rewrite_side_exit(n, inst, Len(n.ebbInsts)), inst, has_argument),
        Len(n.ebbInsts), target, jump_args)

(* lines 277-279 and on: any other branch. *)
visit_plain_branch(r, inst, target) ==
    IF ~r.m.ok THEN [m |-> r.m, cur |-> r.last]
    ELSE [m |-> visit_branch_args(r.m, inst, target), cur |-> r.last]

(* visit_branch: yields [m, cur]: the function and where the cursor is left. *)
visit_branch(m, inst) ==
    LET cl        == classify_branch(m.insts[inst].op)
        target    == m.insts[inst].dest
        new_block == cl.side_exit /\ Len(m.ebbParams[target]) > 0
    IN IF ~cl.ok THEN [m |-> Panic(m), cur |-> inst]
       ELSE IF ~cl.target THEN [m |-> m, cur |-> inst]
       ELSE IF new_block
       THEN visit_side_exit(make_empty_ebb(m), inst, target,
                            inst_variable_args(m.insts[inst]), cl.has_argument)
       ELSE visit_plain_branch(visit_branch_inst(m, inst, cl.has_argument), inst, target)

(* visit_terminator: returns are filled into their ABI registers. *)
RECURSIVE ReturnFills(_, _, _, _)
ReturnFills(m, inst, return_info, j) ==
    IF j > Len(return_info) \/ ~m.ok THEN m
    ELSE LET a    == make_value(m, m.vtype[return_info[j].val])
             temp == last_value(a)
             b    == make_inst(a, Inst("fill", <<return_info[j].val>>, <<temp>>, 0, "fill"))
             c    == insert_inst(b, last_inst(b), inst)
         IN ReturnFills(
                IF return_info[j].abi.location.k = "Reg"
                THEN [c EXCEPT !.locations[temp] = Reg(return_info[j].abi.location.n),
                               !.insts[inst].args[j] = temp]
                ELSE Panic(c),
                inst, return_info, j + 1)

visit_terminator(m, inst, returns) ==
    LET args == m.insts[inst].args
        n == IF Len(args) < Len(returns) THEN Len(args) ELSE Len(returns)
    IN IF m.insts[inst].op \in {"return", "fallthrough_return"}
       THEN ReturnFills(m, inst, [k \in 1..n |-> [val |-> args[k], abi |-> returns[k]]], 1)
       ELSE IF m.insts[inst].op = "trap" THEN m
       ELSE Panic(m)

(* visit_entry_block: register parameters are spilled, keeping their names. *)
RECURSIVE EntryParams(_, _, _, _, _)
EntryParams(m, entry, first, signature_info, j) ==
    IF j > Len(signature_info) \/ ~m.ok THEN m
    ELSE LET param == signature_info[j].param
             abi   == signature_info[j].abi
             a  == make_value(m, abi.value_type)
             new_param == last_value(a)
             b  == make_inst(a, Inst("spill", <<new_param>>, <<param>>, 0, "spill"))
             c  == make_spill_slot(insert_inst(b, last_inst(b), first))
         IN EntryParams(
                CASE abi.location.k = "Reg" ->
                       [c EXCEPT !.ebbParams[entry][IndexOf(m.ebbParams[entry], param)] = new_param,
                                 !.locations[new_param] = abi.location,
                                 !.locations[param] = Stack(c.num_slots)]
                  [] abi.location.k = "Stack" ->
                       IF debug_build /\ m.locations[param].k # "Stack" THEN Panic(m) ELSE m
                  [] OTHER -> Panic(m),
                entry, first, signature_info, j + 1)

visit_entry_block(m, entry, params) ==
    LET ps == m.ebbParams[entry]
        n  == IF Len(ps) < Len(params) THEN Len(ps) ELSE Len(params)
    IN EntryParams(m, entry, first_inst(m, entry),
                   [k \in 1..n |-> [param |-> ps[k], abi |-> params[k]]], 1)

(* visit_other_blocks: a stack slot for every parameter of every other EBB. *)
RECURSIVE SlotParams(_, _, _)
SlotParams(m, ps, j) ==
    IF j > Len(ps) THEN m
    ELSE LET a == make_spill_slot(m)
         IN SlotParams([a EXCEPT !.locations[ps[j]] = Stack(a.num_slots)], ps, j + 1)
RECURSIVE visit_other_blocks(_, _, _)
visit_other_blocks(m, order, i) ==
    IF i > Len(order) THEN m
    ELSE visit_other_blocks(SlotParams(m, m.ebbParams[order[i]], 1), order, i + 1)

----------------------------------------------------------------------------
(* Input functions of the allocator. Values and instructions are numbered in *)
(* the order of the listing.                                                 *)
AbiParam(ty, loc) == [value_type |-> ty, location |-> loc]

Function(ebb_params, ebb_insts, data, types, locs, slots, sig_params, sig_returns) ==
    [layout |-> [e \in 1..Len(ebb_insts) |-> e],
     ebbInsts |-> ebb_insts, ebbParams |-> ebb_params, insts |-> data,
     vtype |-> types, locations |-> locs, num_slots |-> slots,
     signature |-> [params |-> sig_params, returns |-> sig_returns]]

(* The second parameter comes in a register or on the stack. *)
Abi2 == {Reg(2), Stack(1)}
EntryLocs(abi2, n) ==
    [v \in 1..n |-> IF v = 2 /\ abi2.k = "Stack" THEN Stack(1) ELSE Unassigned]
EntrySlots(abi2) == IF abi2.k = "Stack" THEN 1 ELSE 0
EntrySig(abi2) == <<AbiParam("i32", Reg(1)), AbiParam("i32", abi2)>>

BinOp(enc) == CASE enc = "rr" -> "isub" [] enc = "tied" -> "iadd" [] OTHER -> "ishl"

(*  ebb1(v1, v2):  v3 = binop v1, v2 ;  v4 [, v5] = mid v3 ;  return retv *)
StraightFn(enc, mid, retv, abi2) ==
    LET second ==
          CASE mid = "copy"    -> Inst("copy", <<3>>, <<4>>, 0, "")
            [] mid = "iconcat" -> Inst("iconcat", <<3, 1>>, <<4>>, 0, "")
            [] mid = "stk"     -> Inst("bitcast", <<3>>, <<4>>, 0, "stk")
            [] mid = "call"    -> Inst("call", <<3>>, <<4>>, 0, "")
            [] mid = "rcmp"    -> Inst("ifcmp", <<3, 1>>, <<4>>, 0, "rcmp")
            [] mid = "rout"    -> Inst("iadd_ifcout", <<3, 1>>, <<4, 5>>, 0, "rout")
            [] OTHER           -> Inst("x86_umulx", <<3, 1>>, <<4, 5>>, 0, "mulx")
        n == IF mid \in {"mulx", "rout"} THEN 5 ELSE 4
        ret == IF mid = "rcmp" THEN 3 ELSE retv
    IN Function(<<<<1, 2>>>>, <<<<1, 2, 3>>>>,
                <<Inst(BinOp(enc), <<1, 2>>, <<3>>, 0, enc), second,
                  Inst("return", IF mid = "mulx" THEN <<4, 5>> ELSE <<ret>>, <<>>, 0, "")>>,
                [v \in 1..n |-> IF (mid = "rcmp" /\ v = 4) \/ (mid = "rout" /\ v = 5)
                                 THEN "iflags" ELSE "i32"],
                EntryLocs(abi2, n), EntrySlots(abi2), EntrySig(abi2),
                IF mid = "mulx" THEN <<AbiParam("i32", Reg(1)), AbiParam("i32", Reg(3))>>
                ELSE <<AbiParam("i32", Reg(1))>>)

(*  ebb1(v1, v2):  v3 = iconcat v1, v2 ;  v4 = isub v3, v1 ;  return v4 *)
GhostUseFn(abi2) ==
    Function(<<<<1, 2>>>>, <<<<1, 2, 3>>>>,
             <<Inst("iconcat", <<1, 2>>, <<3>>, 0, ""),
               Inst("isub", <<3, 1>>, <<4>>, 0, "rr"),
               Inst("return", <<4>>, <<>>, 0, "")>>,
             [v \in 1..4 |-> "i32"], EntryLocs(abi2, 4), EntrySlots(abi2),
             EntrySig(abi2), <<AbiParam("i32", Reg(1))>>)

(*  ebb1(v1, v2):  v3 = iconcat v1, v2 ;  v4 = bitcast v3 ;  return v4 *)
GhostStackFn(abi2) ==
    Function(<<<<1, 2>>>>, <<<<1, 2, 3>>>>,
             <<Inst("iconcat", <<1, 2>>, <<3>>, 0, ""),
               Inst("bitcast", <<3>>, <<4>>, 0, "stk"),
               Inst("return", <<4>>, <<>>, 0, "")>>,
             [v \in 1..4 |-> "i32"], EntryLocs(abi2, 4), EntrySlots(abi2),
             EntrySig(abi2), <<AbiParam("i32", Reg(1))>>)

(*  ebb1(v1, v2):  v3 = isub v1, v2 ;  v4 = copy v3 ;  call ;               *)
(*                 v5 = copy v4 ;  return v5                                   *)
SplitCallFn(abi2) ==
    Function(<<<<1, 2>>>>, <<<<1, 2, 3, 4, 5>>>>,
             <<Inst("isub", <<1, 2>>, <<3>>, 0, "rr"),
               Inst("copy", <<3>>, <<4>>, 0, ""),
               Inst("call", <<>>, <<>>, 0, ""),
               Inst("copy", <<4>>, <<5>>, 0, ""),
               Inst("return", <<5>>, <<>>, 0, "")>>,
             [v \in 1..5 |-> "i32"], EntryLocs(abi2, 5), EntrySlots(abi2),
             EntrySig(abi2), <<AbiParam("i32", Reg(1))>>)

(*  ebb1(v1, v2):  v3 = ifcmp v1, v2 ;  br.. cond, ebbT[(v2)] ;               *)
(*                 v4 = iadd v1, v2 ;  brnz v4, ebb2 ;  jump ebb3(v4)          *)
(*  ebb2:          trap                                                        *)
(*  ebb3(v5):      return v5                                                   *)
CondFn(br, to_param, abi2) ==
    LET cond == CASE br = "brif" -> <<3>> [] br = "br_icmp" -> <<1, 2>> [] OTHER -> <<1>>
    IN Function(<<<<1, 2>>, <<>>, <<5>>>>, <<<<1, 2, 3, 4, 5>>, <<6>>, <<7>>>>,
                <<Inst("ifcmp", <<1, 2>>, <<3>>, 0, "rcmp"),
                  Inst(br, cond \o (IF to_param THEN <<2>> ELSE <<>>), <<>>,
                       IF to_param THEN 3 ELSE 2, IF br = "brz" THEN "brnz" ELSE br),
                  Inst("iadd", <<1, 2>>, <<4>>, 0, "tied"),
                  Inst("brnz", <<4>>, <<>>, 2, "brnz"),
                  Inst("jump", <<4>>, <<>>, 3, ""),
                  Inst("trap", <<>>, <<>>, 0, ""),
                  Inst("return", <<5>>, <<>>, 0, "")>>,
                [v \in 1..5 |-> IF v = 3 THEN "iflags" ELSE "i32"],
                EntryLocs(abi2, 5), EntrySlots(abi2), EntrySig(abi2),
                <<AbiParam("i32", Reg(1))>>)

(*  ebb1(v1, v2):  jump ebb2(v1, v2)                                           *)
(*  ebb2(v3, v4):  v5 = copy v3 ;  brnz v4, ebb3 ;  jump ebb2(a, b)            *)
(*  ebb3:          return v5                                                   *)
LoopFn(a, b, abi2) ==
    Function(<<<<1, 2>>, <<3, 4>>, <<>>>>, <<<<1>>, <<2, 3, 4>>, <<5>>>>,
             <<Inst("jump", <<1, 2>>, <<>>, 2, ""),
               Inst("copy", <<3>>, <<5>>, 0, ""),
               Inst("brnz", <<4>>, <<>>, 3, "brnz"),
               Inst("jump", <<a, b>>, <<>>, 2, ""),
               Inst("return", <<5>>, <<>>, 0, "")>>,
             [v \in 1..5 |-> "i32"], EntryLocs(abi2, 5), EntrySlots(abi2),
             EntrySig(abi2), <<AbiParam("i32", Reg(1))>>)

(*  ebb1(v1, v2):  brnz v1, ebb2(v2) ;  brnz v2, ebb2(v1) ;  jump ebb2(v1)     *)
(*  ebb2(v3):      [brnz v3, ebb2(v3) ;]  ret v3                               *)
TwoExitFn(back, ret, abi2) ==
    Function(<<<<1, 2>>, <<3>>>>,
             <<<<1, 2, 3>>, IF back THEN <<5, 4>> ELSE <<4>>>>,
             <<Inst("brnz", <<1, 2>>, <<>>, 2, "brnz"),
               Inst("brnz", <<2, 1>>, <<>>, 2, "brnz"),
               Inst("jump", <<1>>, <<>>, 2, "")>>
             \o (IF back
                 THEN <<Inst(ret, <<3>>, <<>>, 0, ""),
                        Inst("brnz", <<3, 3>>, <<>>, 2, "brnz")>>
                 ELSE <<Inst(ret, <<3>>, <<>>, 0, "")>>),
             [v \in 1..3 |-> "i32"], EntryLocs(abi2, 3), EntrySlots(abi2),
             EntrySig(abi2), <<AbiParam("i32", Reg(1))>>)

(*  ebb1(v1, v2):  indirect_jump_table_br v1, [ebb2, ebb3]                     *)
(*  ebb2:          trap                                                        *)
(*  ebb3:          return v2                                                   *)
JumpTableFn(abi2) ==
    Function(<<<<1, 2>>, <<>>, <<>>>>, <<<<1>>, <<2>>, <<3>>>>,
             <<[Inst("indirect_jump_table_br", <<1>>, <<>>, 0, "jt")
                   EXCEPT !.table = <<2, 3>>],
               Inst("trap", <<>>, <<>>, 0, ""),
               Inst("return", <<2>>, <<>>, 0, "")>>,
             [v \in 1..2 |-> "i32"], EntryLocs(abi2, 2), EntrySlots(abi2),
             EntrySig(abi2), <<AbiParam("i32", Reg(1))>>)

(*  ebb1(v1, v2):  v3 = ifcmp v1, v2 ;  jump ebb2(v3)                          *)
(*  ebb2(v4):      brif v4, ebb3 ;  return v1                                   *)
(*  ebb3:          trap                                                        *)
FlagsParamFn(abi2) ==
    Function(<<<<1, 2>>, <<4>>, <<>>>>, <<<<1, 2>>, <<3, 4>>, <<5>>>>,
             <<Inst("ifcmp", <<1, 2>>, <<3>>, 0, "rcmp"),
               Inst("jump", <<3>>, <<>>, 2, ""),
               Inst("brif", <<4>>, <<>>, 3, "brif"),
               Inst("return", <<1>>, <<>>, 0, ""),
               Inst("trap", <<>>, <<>>, 0, "")>>,
             [v \in 1..4 |-> IF v \in {3, 4} THEN "iflags" ELSE "i32"],
             EntryLocs(abi2, 4), EntrySlots(abi2), EntrySig(abi2),
             <<AbiParam("i32", Reg(1))>>)

AllocInputs ==
    {StraightFn(enc, mid, retv, abi2) :
        enc \in {"rr", "tied", "shift"},
        mid \in {"copy", "iconcat", "stk", "call", "rcmp", "rout", "mulx"},
        retv \in {3, 4}, abi2 \in Abi2}
    \cup {GhostUseFn(abi2) : abi2 \in Abi2}
    \cup {GhostStackFn(abi2) : abi2 \in Abi2}
    \cup {SplitCallFn(abi2) : abi2 \in Abi2}
    \cup {TwoExitFn(back, ret, abi2) :
             back \in BOOLEAN, ret \in {"return", "fallthrough_return"}, abi2 \in Abi2}
    \cup {CondFn(br, to_param, abi2) :
             br \in {"brz", "brnz", "brif", "br_icmp"}, to_param \in BOOLEAN,
             abi2 \in Abi2}
    \cup {LoopFn(a, b, abi2) : a \in 3..5, b \in 3..5, abi2 \in Abi2}
    \cup {JumpTableFn(abi2) : abi2 \in Abi2}
    \cup {FlagsParamFn(abi2) : abi2 \in Abi2}

----------------------------------------------------------------------------
(* Minimal::run as a state machine.                                          *)

CurrentFunction ==
    [layout |-> layout, ebbInsts |-> ebbInsts, ebbParams |-> ebbParams,
     insts |-> insts, vtype |-> vtype, locations |-> locations]

(* The pass is handed the function F with its flowgraph and dominator tree. *)
AllocStart(F, dbg) ==
        /\ layout = F.layout /\ ebbInsts = F.ebbInsts /\ ebbParams = F.ebbParams
        /\ insts = F.insts /\ vtype = F.vtype /\ locations = F.locations
        /\ num_slots = F.num_slots /\ signature = F.signature
        /\ cfg_preds = ComputePreds(F) /\ idom = ComputeIdom(F)
        /\ liveness = <<>>
        /\ pc = "entry" /\ debug_build = dbg /\ new_blocks = FALSE
        /\ regs = {} /\ topo = <<>> /\ topo_next = 1
        /\ cur_ebb = 0 /\ cur_inst = 0 /\ trace = <<>> /\ visits = <<>>
        /\ func0 = [layout |-> F.layout, ebbInsts |-> F.ebbInsts,
                    ebbParams |-> F.ebbParams, insts |-> F.insts,
                    vtype |-> F.vtype, locations |-> F.locations]
        /\ bbgraph = <<>> /\ renamed = <<>> /\ df = <<>> /\ rn = <<>>

InitAlloc == \E F \in AllocInputs, dbg \in BOOLEAN : AllocStart(F, dbg)

(* The handler's result becomes the state; a panic ends the pass. *)
Commit(m) ==
    /\ layout' = m.layout /\ ebbInsts' = m.ebbInsts /\ ebbParams' = m.ebbParams
    /\ insts' = m.insts /\ vtype' = m.vtype /\ locations' = m.locations
    /\ num_slots' = m.num_slots /\ regs' = m.regs /\ new_blocks' = m.new_blocks
    /\ trace' = m.trace
Abort ==
    /\ pc' = "panic"
    /\ UNCHANGED <<funcVars, inputVars, allocVars, splitVars>>

(* run, line 120 *)
VisitEntryBlock ==
    /\ pc = "entry"
    /\ LET m == visit_entry_block(Machine, layout[1], signature.params)
       IN IF m.ok
          THEN /\ Commit(m) /\ pc' = "others"
               /\ UNCHANGED <<inputVars, splitVars, topo, topo_next, cur_ebb,
                              cur_inst, visits>>
          ELSE Abort

(* run, lines 124-130: the parameters of the other blocks, then the register *)
(* set and the topological order for the main loop                           *)
VisitOtherBlocks ==
    /\ pc = "others"
    /\ LET order == TopoOrder(layout, ebbInsts, idom)
           m == visit_other_blocks(Machine, order, 2)
       IN /\ Commit([m EXCEPT !.regs = allocatable_registers])
          /\ topo' = order /\ topo_next' = 1 /\ cur_ebb' = 0 /\ cur_inst' = 0
          /\ pc' = "run"
          /\ UNCHANGED <<inputVars, splitVars, visits>>

(* cur.next_inst(): the instruction after the cursor, 0 at the end of the EBB *)
NextInst ==
    IF cur_ebb = 0 THEN 0
    ELSE LET p == IF cur_inst = 0 THEN 0 ELSE IndexOf(ebbInsts[cur_ebb], cur_inst)
         IN IF p < Len(ebbInsts[cur_ebb]) THEN ebbInsts[cur_ebb][p + 1] ELSE 0

(* run, lines 131-132 *)
NextEbb ==
    /\ pc = "run" /\ NextInst = 0 /\ topo_next <= Len(topo)
    /\ cur_ebb' = topo[topo_next] /\ cur_inst' = 0 /\ topo_next' = topo_next + 1
    /\ UNCHANGED <<funcVars, inputVars, splitVars, pc, new_blocks, regs, topo,
                   trace, visits>>

Visiting(inst) == pc = "run" /\ NextInst = inst /\ inst # 0

(* run, line 134: ghost instructions are passed over *)
SkipGhost ==
    \E inst \in 1..Len(insts) :
        /\ Visiting(inst) /\ is_ghost(insts[inst].op)
        /\ cur_inst' = inst
        /\ UNCHANGED <<funcVars, inputVars, splitVars, pc, new_blocks, regs, topo,
                       topo_next, cur_ebb, trace, visits>>

Dispatch(inst, m, cur) ==
    IF m.ok
    THEN /\ Commit(m) /\ cur_inst' = cur /\ visits' = Append(visits, inst)
         /\ UNCHANGED <<inputVars, splitVars, pc, topo, topo_next, cur_ebb>>
    ELSE Abort

DispatchAt(inst, r) == Dispatch(inst, r.m, r.cur)
DispatchLast(inst, r) == Dispatch(inst, r.m, r.last)

VisitCopy ==
    \E inst \in 1..Len(insts) :
        /\ Visiting(inst) /\ ~is_ghost(insts[inst].op)
        /\ insts[inst].op = "copy"
        /\ Dispatch(inst, visit_copy(Machine, inst), inst)

VisitBranch ==
    \E inst \in 1..Len(insts) :
        /\ Visiting(inst) /\ ~is_ghost(insts[inst].op)
        /\ insts[inst].op # "copy" /\ is_branch(insts[inst].op)
        /\ DispatchAt(inst, visit_branch(Machine, inst))

VisitTerminator ==
    \E inst \in 1..Len(insts) :
        /\ Visiting(inst) /\ ~is_ghost(insts[inst].op)
        /\ insts[inst].op # "copy" /\ ~is_branch(insts[inst].op)
        /\ is_terminator(insts[inst].op)
        /\ Dispatch(inst, visit_terminator(Machine, inst, signature.returns), inst)

(* The call is passed over like a fill or a spill. *)
VisitCallSkips ==
    \E inst \in 1..Len(insts) :
        /\ Visiting(inst) /\ ~is_ghost(insts[inst].op)
        /\ insts[inst].op # "copy" /\ ~is_branch(insts[inst].op)
        /\ ~is_terminator(insts[inst].op) /\ is_call(insts[inst].op)
        /\ Dispatch(inst, Machine, inst)
(* visit_call: "Calls not yet implemented" *)
VisitCall ==
    \E inst \in 1..Len(insts) :
        /\ Visiting(inst) /\ ~is_ghost(insts[inst].op)
        /\ insts[inst].op # "copy" /\ ~is_branch(insts[inst].op)
        /\ ~is_terminator(insts[inst].op) /\ is_call(insts[inst].op)
        /\ Abort

(* "Inserted by the register allocator; ignore them." *)
SkipFillSpill ==
    \E inst \in 1..Len(insts) :
        /\ Visiting(inst) /\ insts[inst].op \in {"spill", "fill"}
        /\ Dispatch(inst, Machine, inst)

VisitPlainInst ==
    \E inst \in 1..Len(insts) :
        /\ Visiting(inst) /\ ~is_ghost(insts[inst].op)
        /\ insts[inst].op \notin {"copy", "spill", "fill"}
        /\ ~is_branch(insts[inst].op) /\ ~is_terminator(insts[inst].op)
        /\ ~is_call(insts[inst].op)
        /\ DispatchLast(inst, visit_plain_inst(Machine, inst))

(* run, lines 140-144: the pass is over; flowgraph and dominator tree are     *)
(* computed again when blocks were added                                      *)
FinishAlloc ==
    /\ pc = "run" /\ cur_ebb # 0 /\ NextInst = 0 /\ topo_next > Len(topo)
    /\ pc' = "done"
    /\ cfg_preds' = IF new_blocks THEN ComputePreds(CurrentFunction) ELSE cfg_preds
    /\ idom' = IF new_blocks THEN ComputeIdom(CurrentFunction) ELSE idom
    /\ UNCHANGED <<funcVars, signature, liveness, debug_build, func0, allocVars,
                   splitVars>>

NextAlloc ==
    \/ VisitEntryBlock
    \/ VisitOtherBlocks
    \/ NextEbb
    \/ SkipGhost
    \/ VisitCopy
    \/ VisitBranch
    \/ VisitTerminator
    \/ VisitCall
    \/ SkipFillSpill
    \/ VisitPlainInst
    \/ FinishAlloc

SpecAlloc == InitAlloc /\ [][NextAlloc]_vars

----------------------------------------------------------------------------
(* splitting.rs: insert_temps.                                               *)

(* The liveness handed to the pass. A value is live through call c when its *)
(* definition dominates c and a use is reached from c without passing the   *)
(* definition again.                                                        *)
ResultDef(F, v) == CHOOSE d \in 1..Len(F.insts) : v \in Range(F.insts[d].res)
IsResult(F, v) == \E d \in AllInsts(F) : v \in Range(F.insts[d].res)
ParamTop(F, v) ==
    first_inst(F, CHOOSE e \in Range(F.layout) : v \in Range(F.ebbParams[e]))
LiveFrom(F, d, c, v) ==
    /\ c \in Reachable(F) /\ Dominates(F, d, c)
    /\ \E u \in ReachAvoiding(F, Succs(F, c) \ {d}, {d}) : v \in Range(F.insts[u].args)
LiveThrough(F, c, v) ==
    IF IsResult(F, v) THEN ResultDef(F, v) # c /\ LiveFrom(F, ResultDef(F, v), c, v)
    ELSE LiveFrom(F, ParamTop(F, v), c, v)
ComputeLiveness(F, reg_values) ==
    [throughs |-> [c \in 1..Len(F.insts) |->
                      SortedSeq({v \in 1..Len(F.vtype) : LiveThrough(F, c, v)})],
     is_reg   |-> [v \in 1..Len(F.vtype) |-> v \in reg_values]]

(* The part of the function and of `renamed` that insert_temps changes. *)
Temps == [ebbInsts |-> ebbInsts, insts |-> insts, vtype |-> vtype, renamed |-> renamed]

RenamedValue(value) == [value |-> value, new_names |-> <<>>, uses |-> <<>>]
RenamedIndex(rs, value) ==
    IF \E k \in 1..Len(rs) : rs[k].value = value
    THEN CHOOSE k \in 1..Len(rs) : rs[k].value = value ELSE 0
(* lines 636-642: push the copy on the value's new names *)
push_new_name(rs, value, copy) ==
    IF RenamedIndex(rs, value) # 0
    THEN [rs EXCEPT ![RenamedIndex(rs, value)].new_names = Append(@, copy)]
    ELSE Append(rs, [RenamedValue(value) EXCEPT !.new_names = <<copy>>])
RECURSIVE push_new_names(_, _, _, _)
push_new_names(rs, lvs, first_copy, j) ==
    IF j > Len(lvs) THEN rs
    ELSE push_new_names(push_new_name(rs, lvs[j], first_copy + j), lvs,
                        first_copy, j + 1)

(* Every value live through the call is copied, whatever its affinity. *)
RegThroughsAll(call) == liveness.throughs[call]
(* The throughs of a call that have register affinity. *)
RegThroughs(call) ==
    SelectSeq(liveness.throughs[call], LAMBDA v : liveness.is_reg[v])

(* lines 613-644: n temps before the call, n copies of them after it. lvs   *)
(* are the values copied, e is the EBB of the call.                         *)
call_insert_temps(t, call, lvs, e) ==
    [ebbInsts |->
        [t.ebbInsts EXCEPT ![e] =
            SubSeq(@, 1, IndexOf(@, call) - 1)
            \o [j \in 1..Len(lvs) |-> Len(t.insts) + j]
            \o <<call>>
            \o [j \in 1..Len(lvs) |-> Len(t.insts) + Len(lvs) + j]
            \o SubSeq(@, IndexOf(@, call) + 1, Len(@))],
     insts |->
        t.insts
        \o [j \in 1..Len(lvs) |-> Inst("copy", <<lvs[j]>>, <<Len(t.vtype) + j>>, 0, "")]
        \o [j \in 1..Len(lvs) |->
               Inst("copy", <<Len(t.vtype) + j>>, <<Len(t.vtype) + Len(lvs) + j>>, 0, "")],
     vtype |->
        t.vtype \o [j \in 1..Len(lvs) |-> t.vtype[lvs[j]]]
                \o [j \in 1..Len(lvs) |-> t.vtype[lvs[j]]],
     renamed |-> push_new_names(t.renamed, lvs, Len(t.vtype) + Len(lvs), 1)]

(* lines 588-648 *)
inst_insert_temps(t, inst, e) ==
    IF is_call(t.insts[inst].op) THEN call_insert_temps(t, inst, RegThroughs(inst), e)
    ELSE t

(* lines 563-586: the instructions of the EBB as they were at the top; the  *)
(* copies put around a call are not visited.                                *)
RECURSIVE ebb_insert_temps(_, _, _, _)
ebb_insert_temps(t, e, code, j) ==
    IF j > Len(code) THEN t
    ELSE ebb_insert_temps(
             IF is_ghost(t.insts[code[j]].op) THEN t
             ELSE inst_insert_temps(t, code[j], e),
             e, code, j + 1)

----------------------------------------------------------------------------
(* splitting.rs: collect_uses, the BB graph, dominance frontiers.            *)

(* The instructions of the function in layout order. *)
RECURSIVE LayoutInsts(_, _, _)
LayoutInsts(lay, ei, i) ==
    IF i > Len(lay) THEN <<>> ELSE ei[lay[i]] \o LayoutInsts(lay, ei, i + 1)

(* lines 672-676: inst is pushed once for every argument that is `value` *)
inst_uses(inst, value) ==
    [k \in 1..Len(SelectSeq(insts[inst].args, LAMBDA a : a = value)) |-> inst]
RECURSIVE uses_of(_, _, _)
uses_of(code, value, j) ==
    IF j > Len(code) THEN <<>>
    ELSE inst_uses(code[j], value) \o uses_of(code, value, j + 1)
collect_uses(rs) ==
    [k \in 1..Len(rs) |->
        [rs[k] EXCEPT !.uses = @ \o uses_of(LayoutInsts(layout, ebbInsts, 1),
                                            rs[k].value, 1)]]

(* lines 537-549: the branches of every EBB, in order *)
compute_bbgraph ==
    [e \in 1..Len(ebbInsts) |->
        IF e \in Range(layout)
        THEN SelectSeq(ebbInsts[e], LAMBDA i : is_branch(insts[i].op))
        ELSE <<>>]

(* Program order within an EBB: the EBB itself is 0, its instructions 1, 2, .. *)
bb_ebb(bb) == inst_ebb(ebbInsts, bb)
inst_pp(inst) == IndexOf(ebbInsts[bb_ebb(inst)], inst)

(* lines 522-535: pos is 0 when no BB of the EBB ends at or after inst (the *)
(* panic "Should not happen"); otherwise it counts from 1.                  *)
bbs_from(info, pp) == {i \in 1..Len(info) : pp <= inst_pp(info[i])}
inst_info(inst) ==
    The({IF at = {} THEN [ebb |-> bb_ebb(inst), bb |-> 0, pos |-> 0]
         ELSE [ebb |-> bb_ebb(inst), bb |-> bbgraph[bb_ebb(inst)][Min(at)], pos |-> Min(at)] :
            at \in {bbs_from(bbgraph[bb_ebb(inst)], inst_pp(inst))}})
inst_bb(inst) == inst_info(inst).bb
(* lines 508-510: 0 is the panic of indexing an empty list *)
ebb_bb(ebb) == IF bbgraph[ebb] = <<>> THEN 0 ELSE bbgraph[ebb][1]
(* lines 498-505: 0 is None *)
bb_idom(bb) ==
    The({IF info.pos = 1 THEN idom[info.ebb] ELSE bbgraph[info.ebb][info.pos - 1] :
            info \in {inst_info(bb)}})

(* lines 434-437: d is [df, ok]; ok = FALSE is the unwrap of None *)
RECURSIVE df_runner(_, _, _, _)
df_runner(d, runner, idom_n, n) ==
    IF ~d.ok \/ runner = idom_n THEN d
    ELSE IF runner = 0 THEN [d EXCEPT !.ok = FALSE]
    ELSE The({df_runner(d2, r2, idom_n, n) :
                 d2 \in {[d EXCEPT !.df[runner] = @ \cup {n}]}, r2 \in {bb_idom(runner)}})
(* lines 432-438 *)
RECURSIVE df_preds(_, _, _, _, _)
df_preds(d, preds, idom_n, n, j) ==
    IF j > Len(preds) \/ ~d.ok THEN d
    ELSE The({df_preds(d2, preds, idom_n, n, j + 1) :
                 d2 \in {df_runner(d, ebb_bb(preds[j].ebb), idom_n, n)}})
(* lines 428-439 *)
df_ebb(d, ebb) ==
    IF Len(cfg_preds[ebb]) < 2 THEN d
    ELSE IF ebb_bb(ebb) = 0 \/ bb_idom(ebb_bb(ebb)) = 0 THEN [d EXCEPT !.ok = FALSE]
    ELSE The({df_preds(d, cfg_preds[ebb], idom_n, n, 1) :
                 idom_n \in {bb_idom(ebb_bb(ebb))}, n \in {ebb_bb(ebb)}})
RECURSIVE df_ebbs(_, _, _)
df_ebbs(d, ebbs, i) ==
    IF i > Len(ebbs) \/ ~d.ok THEN d
    ELSE The({df_ebbs(d2, ebbs, i + 1) : d2 \in {df_ebb(d, ebbs[i])}})
(* lines 419-443 *)
compute_dominance_frontiers(ebbs) ==
    df_ebbs([df |-> [b \in 1..Len(insts) |-> {}], ok |-> TRUE], ebbs, 1)

----------------------------------------------------------------------------
(* splitting.rs: compute_idf, find_redefinition, rename_uses.                *)

(* dfg.value_def: an EBB parameter or an instruction result *)
is_param(v) == \E e \in 1..Len(ebbParams) : v \in Range(ebbParams[e])
param_ebb(v) == CHOOSE e \in 1..Len(ebbParams) : v \in Range(ebbParams[e])
result_inst(v) == CHOOSE i \in 1..Len(insts) : v \in Range(insts[i].res)
(* lines 490-495; 0 is a panic of ebb_bb or inst_info *)
defining_bb(defn) ==
    IF is_param(defn) THEN ebb_bb(param_ebb(defn))
    ELSE The({inst_bb(inst) : inst \in {result_inst(defn)}})
(* ExpandedProgramPoint of the definition, within its EBB *)
defn_pp(defn) ==
    IF is_param(defn) THEN 0 ELSE The({inst_pp(inst) : inst \in {result_inst(defn)}})

(* lines 472-483: the worklist closes the blocks under DF *)
RECURSIVE idf_worklist(_, _, _)
idf_worklist(d, in_worklist, idf) ==
    IF UNION {d[b] : b \in in_worklist} \subseteq (idf \cap in_worklist) THEN idf
    ELSE idf_worklist(d, in_worklist \cup UNION {d[b] : b \in in_worklist},
                      idf \cup UNION {d[b] : b \in in_worklist})
(* lines 452-486: ok = FALSE when a defining BB cannot be found *)
compute_idf(d, name, new_names) ==
    IF defining_bb(name) = 0 \/ \E j \in 1..Len(new_names) : defining_bb(new_names[j]) = 0
    THEN [ok |-> FALSE, idf |-> {}]
    ELSE [ok |-> TRUE,
          idf |-> idf_worklist(d, {defining_bb(name)}
                                  \cup {defining_bb(new_names[j]) : j \in 1..Len(new_names)},
                               {})]

(* lines 357-377: the new names defined in target_bb that count *)
defns_in(target_bb, use_inst, use_bb, new_names) ==
    {j \in 1..Len(new_names) :
        /\ defining_bb(new_names[j]) = target_bb
        /\ (target_bb # use_bb \/ defn_pp(new_names[j]) < inst_pp(use_inst))}
closest_defn(new_names, at) ==
    new_names[Min({j \in at : \A j2 \in at : defn_pp(new_names[j2]) <= defn_pp(new_names[j])})]

(* lines 352-410: found is the new definition (0: none); phi is the BB that  *)
(* gets a new EBB parameter (0: none), found is then the parameter to make; *)
(* ok = FALSE is a panic.                                                    *)
RECURSIVE find_closest_defn(_, _, _, _, _)
find_closest_defn(target_bb, use_inst, use_bb, new_names, idf) ==
    IF defns_in(target_bb, use_inst, use_bb, new_names) # {}
    THEN [ok |-> TRUE,
          found |-> closest_defn(new_names,
                                 defns_in(target_bb, use_inst, use_bb, new_names)),
          phi |-> 0]
    ELSE IF bb_idom(target_bb) = 0 THEN [ok |-> TRUE, found |-> 0, phi |-> 0]
    ELSE IF target_bb \in idf
    THEN [ok |-> TRUE, found |-> Len(vtype) + 1, phi |-> target_bb]
    ELSE The({find_closest_defn(bb, use_inst, use_bb, new_names, idf) :
                 bb \in {bb_idom(target_bb)}})

(* lines 395-403: the new parameter and the argument of every predecessor *)
(* No predecessor gets an argument or becomes a new use. *)
PredInstsNone(ebb) == <<>>
PredInsts(ebb) == [j \in 1..Len(cfg_preds[ebb]) |-> cfg_preds[ebb][j].inst]
(* What if only the first predecessor got the argument? *)
append_inst_args_first(data, branches, name) ==
    [i \in 1..Len(data) |->
        IF branches # <<>> /\ i = branches[1] THEN [data[i] EXCEPT !.args = Append(@, name)]
        ELSE data[i]]
append_inst_args(data, branches, name) ==
    [i \in 1..Len(data) |->
        IF i \in Range(branches) THEN [data[i] EXCEPT !.args = Append(@, name)]
        ELSE data[i]]
(* lines 311-315: every argument of use_inst that is `value` *)
replace_uses(data, use_inst, value, new_defn) ==
    [data EXCEPT ![use_inst].args =
        [k \in 1..Len(@) |-> IF @[k] = value THEN new_defn ELSE @[k]]]

(* lines 340-413 *)
find_redefinition(use_inst, name, new_names, idf) ==
    IF inst_bb(use_inst) = 0 THEN [ok |-> FALSE, found |-> 0, phi |-> 0]
    ELSE The({find_closest_defn(bb, use_inst, bb, new_names, idf) :
                 bb \in {inst_bb(use_inst)}})

----------------------------------------------------------------------------
(* The functions split_across_calls is handed: value 1 is the condition c,  *)
(* value 2 is v; a hole X of a skeleton is nothing, a call or a use of v.   *)

Hole(x) == CASE x = "call" -> <<Inst("call", <<>>, <<>>, 0, "")>>
             [] x = "use"  -> <<Inst("store", <<2>>, <<>>, 0, "")>>
             [] OTHER      -> <<>>
Holes == {"nop", "call", "use"}
DefC == <<Inst("iconst", <<>>, <<1>>, 0, "")>>
DefV == <<Inst("iconst", <<>>, <<2>>, 0, "")>>
Brnz(e) == <<Inst("brnz", <<1>>, <<>>, e, "brnz")>>
Jump(e) == <<Inst("jump", <<>>, <<>>, e, "")>>
Return == <<Inst("return", <<>>, <<>>, 0, "")>>
Trap == <<Inst("trap", <<>>, <<>>, 0, "")>>

RECURSIVE Flatten(_, _)
Flatten(blocks, e) ==
    IF e > Len(blocks) THEN <<>> ELSE blocks[e] \o Flatten(blocks, e + 1)
(* A function without EBB parameters from the instructions of its EBBs. *)
SplitFunction(blocks) ==
    [layout    |-> [e \in 1..Len(blocks) |-> e],
     ebbInsts  |-> [e \in 1..Len(blocks) |->
                      [j \in 1..Len(blocks[e]) |->
                          Len(Flatten(SubSeq(blocks, 1, e - 1), 1)) + j]],
     ebbParams |-> [e \in 1..Len(blocks) |-> <<>>],
     insts     |-> Flatten(blocks, 1),
     vtype     |-> <<"i32", "i32">>,
     locations |-> <<Unassigned, Unassigned>>]

(*  ebb1: c = .. ; [v = ..] ; jump ebb2                                      *)
(*  ebb2: [v = ..] ; X1 ; X2 ; brnz c, ebb2 ; jump ebb3                      *)
(*  ebb3: X3 ; jump ebb4          ebb4: return                               *)
LoopSplitFn(def_in_loop, x1, x2, x3) ==
    SplitFunction(<<DefC \o (IF def_in_loop THEN <<>> ELSE DefV) \o Jump(2),
                    (IF def_in_loop THEN DefV ELSE <<>>) \o Hole(x1) \o Hole(x2)
                        \o Brnz(2) \o Jump(3),
                    Hole(x3) \o Jump(4),
                    Return>>)
(*  ebb1: c = .. ; v = .. ; X1 ; brnz c, ebb3 ; X2 ; jump ebb2               *)
(*  ebb2: X3 ; jump ebb3     ebb3: X4 ; jump ebb4     ebb4: return           *)
DiamondSplitFn(x1, x2, x3, x4) ==
    SplitFunction(<<DefC \o DefV \o Hole(x1) \o Brnz(3) \o Hole(x2) \o Jump(2),
                    Hole(x3) \o Jump(3),
                    Hole(x4) \o Jump(4),
                    Return>>)
(*  ebb1: c = .. ; v = .. ; brnz c, ebb2 ; X1 ; jump ebb3                    *)
(*  ebb2: X2 ; jump ebb3     ebb3: X3 ; jump ebb4     ebb4: return           *)
SideSplitFn(x1, x2, x3) ==
    SplitFunction(<<DefC \o DefV \o Brnz(2) \o Hole(x1) \o Jump(3),
                    Hole(x2) \o Jump(3),
                    Hole(x3) \o Jump(4),
                    Return>>)
(*  ebb1: c = .. ; v = .. ; brnz c, ebb5 ; X1 ; brnz c, ebb2 ; jump ebb3     *)
(*  ebb2: jump ebb3   ebb3: X2 ; jump ebb4   ebb4: return   ebb5: trap       *)
DeepSplitFn(x1, x2) ==
    SplitFunction(<<DefC \o DefV \o Brnz(5) \o Hole(x1) \o Brnz(2) \o Jump(3),
                    Jump(3),
                    Hole(x2) \o Jump(4),
                    Return,
                    Trap>>)
(*  ebb1: c = .. ; v = .. ; jump ebb2(c)                                     *)
(*  ebb2(p): X1 ; X2 ; brnz c, ebb2(p) ; jump ebb3                           *)
(*  ebb3: X3 ; jump ebb4          ebb4: return                               *)
ParamSplitFn(x1, x2, x3) ==
    [SplitFunction(<<DefC \o DefV \o <<Inst("jump", <<1>>, <<>>, 2, "")>>,
                     Hole(x1) \o Hole(x2) \o <<Inst("brnz", <<1, 3>>, <<>>, 2, "brnz")>>
                         \o Jump(3),
                     Hole(x3) \o Jump(4),
                     Return>>)
     EXCEPT !.ebbParams[2] = <<3>>,
            !.vtype = <<"i32", "i32", "i32">>,
            !.locations = <<Unassigned, Unassigned, Unassigned>>]
(*  ebb1: c = .. ; v = .. ; jump ebb2                                        *)
(*  ebb2: X1 ; brnz c, ebb2 ; jump ebb3                                      *)
(*  ebb3: X2 ; return                                                        *)
ExitSplitFn(x1, x2) ==
    SplitFunction(<<DefC \o DefV \o Jump(2),
                    Hole(x1) \o Brnz(2) \o Jump(3),
                    Hole(x2) \o Return>>)
(*  ebb1: c = .. ; v = .. ; call ; X ; return                                *)
TailSplitFn(x) ==
    SplitFunction(<<DefC \o DefV \o Hole("call") \o Hole(x) \o Return>>)

SplitInputs ==
    {LoopSplitFn(d, x1, x2, x3) : d \in BOOLEAN, x1 \in Holes, x2 \in Holes, x3 \in Holes}
    \cup {DiamondSplitFn(x1, x2, x3, x4) :
             x1 \in Holes, x2 \in Holes, x3 \in Holes, x4 \in Holes}
    \cup {SideSplitFn(x1, x2, x3) : x1 \in Holes, x2 \in Holes, x3 \in Holes}
    \cup {DeepSplitFn(x1, x2) : x1 \in Holes, x2 \in Holes}
    \cup {ParamSplitFn(x1, x2, x3) : x1 \in Holes, x2 \in Holes, x3 \in Holes}
    \cup {TailSplitFn(x) : x \in {"nop", "use"}}
    \cup {ExitSplitFn(x1, x2) : x1 \in Holes, x2 \in Holes}
(* The values with register affinity. *)
RegAffinities == {{1, 2}, {1}, {2}}

----------------------------------------------------------------------------
(* Splitting::split_across_calls as a state machine.                         *)

SplitStart(F, reg_values) ==
    /\ layout = F.layout /\ ebbInsts = F.ebbInsts /\ ebbParams = F.ebbParams
    /\ insts = F.insts /\ vtype = F.vtype /\ locations = F.locations
    /\ num_slots = 0 /\ signature = [params |-> <<>>, returns |-> <<>>]
    /\ cfg_preds = ComputePreds(F) /\ idom = ComputeIdom(F)
    /\ liveness = ComputeLiveness(F, reg_values)
    /\ pc = "insert_temps" /\ debug_build = FALSE /\ new_blocks = FALSE
    /\ regs = {} /\ topo = TopoOrder(F.layout, F.ebbInsts, ComputeIdom(F))
    /\ topo_next = 1 /\ cur_ebb = 0 /\ cur_inst = 0 /\ trace = <<>> /\ visits = <<>>
    /\ func0 = F
    /\ bbgraph = <<>> /\ renamed = <<>> /\ df = <<>> /\ rn = <<>>

InitSplit == \E F \in SplitInputs, reg_values \in RegAffinities : SplitStart(F, reg_values)

SplitPanic ==
    /\ pc' = "panic"
    /\ UNCHANGED <<funcVars, inputVars, allocVars, splitVars>>

(* insert_temps, lines 558-560: the next EBB of the topological order *)
CommitTemps(t) ==
    /\ ebbInsts' = t.ebbInsts /\ insts' = t.insts /\ vtype' = t.vtype
    /\ renamed' = t.renamed
EbbInsertTemps ==
    /\ pc = "insert_temps" /\ topo_next <= Len(topo)
    /\ CommitTemps(ebb_insert_temps(Temps, topo[topo_next], ebbInsts[topo[topo_next]], 1))
    /\ topo_next' = topo_next + 1
    /\ UNCHANGED <<layout, ebbParams, locations, num_slots, inputVars, pc, new_blocks,
                   regs, topo, cur_ebb, cur_inst, trace, visits, bbgraph, df, rn>>

(* run, line 267 *)
CollectUses ==
    /\ pc = "insert_temps" /\ topo_next > Len(topo)
    /\ renamed' = collect_uses(renamed)
    /\ pc' = "compute_bbgraph"
    /\ UNCHANGED <<funcVars, inputVars, allocVars, bbgraph, df, rn>>

(* run, line 276 *)
ComputeBBGraph ==
    /\ pc = "compute_bbgraph"
    /\ bbgraph' = compute_bbgraph
    /\ pc' = "compute_dominance_frontiers"
    /\ UNCHANGED <<funcVars, inputVars, allocVars, renamed, df, rn>>

(* run, line 277 *)
CommitDF(d) ==
    IF d.ok
    THEN /\ df' = d.df /\ pc' = "rename_uses"
         /\ rn' = [key |-> 1, idf |-> {}, worklist |-> <<>>, i |-> 1]
         /\ UNCHANGED <<funcVars, inputVars, allocVars, bbgraph, renamed>>
    ELSE SplitPanic
ComputeDominanceFrontiers ==
    /\ pc = "compute_dominance_frontiers"
    /\ CommitDF(compute_dominance_frontiers(layout))

(* rename_uses, lines 292-298: the next key *)
CommitIdf(f, worklist) ==
    IF f.ok
    THEN /\ rn' = [rn EXCEPT !.idf = f.idf, !.worklist = worklist, !.i = 1]
         /\ pc' = "worklist"
         /\ UNCHANGED <<funcVars, inputVars, allocVars, bbgraph, renamed, df>>
    ELSE SplitPanic
RenameKey ==
    /\ pc = "rename_uses" /\ rn.key <= Len(renamed)
    /\ CommitIdf(compute_idf(df, renamed[rn.key].value, renamed[rn.key].new_names),
                 renamed[rn.key].uses)

(* rename_uses, lines 299-321: one use from the worklist *)
CommitUse(use_inst, name, f) ==
    IF ~f.ok THEN SplitPanic
    ELSE /\ vtype' = IF f.phi # 0 THEN Append(vtype, vtype[name]) ELSE vtype
         /\ ebbParams' = IF f.phi # 0
                         THEN [ebbParams EXCEPT ![bb_ebb(f.phi)] = Append(@, f.found)]
                         ELSE ebbParams
         /\ insts' = IF f.found = 0 THEN insts
                     ELSE replace_uses(
                              IF f.phi # 0
                              THEN append_inst_args(insts, PredInsts(bb_ebb(f.phi)), name)
                              ELSE insts,
                              use_inst, name, f.found)
         /\ renamed' = IF f.phi # 0
                       THEN [renamed EXCEPT ![rn.key].new_names = Append(@, f.found)]
                       ELSE renamed
         /\ rn' = [rn EXCEPT !.i = @ + 1,
                             !.worklist = IF f.phi # 0
                                          THEN @ \o PredInsts(bb_ebb(f.phi)) ELSE @]
         /\ UNCHANGED <<layout, ebbInsts, locations, num_slots, inputVars, allocVars,
                        bbgraph, df, pc>>
RenameUse ==
    /\ pc = "worklist" /\ rn.i <= Len(rn.worklist)
    /\ \E f \in {find_redefinition(rn.worklist[rn.i], renamed[rn.key].value,
                                     renamed[rn.key].new_names, rn.idf)} :
           CommitUse(rn.worklist[rn.i], renamed[rn.key].value, f)

(* rename_uses, line 299: the worklist is done *)
NextKey ==
    /\ pc = "worklist" /\ rn.i > Len(rn.worklist)
    /\ rn' = [rn EXCEPT !.key = @ + 1]
    /\ pc' = "rename_uses"
    /\ UNCHANGED <<funcVars, inputVars, allocVars, bbgraph, renamed, df>>

(* rename_uses, line 292: no key is left *)
FinishSplit ==
    /\ pc = "rename_uses" /\ rn.key > Len(renamed)
    /\ pc' = "split"
    /\ UNCHANGED <<funcVars, inputVars, allocVars, splitVars>>

NextSplit ==
    \/ EbbInsertTemps
    \/ CollectUses
    \/ ComputeBBGraph
    \/ ComputeDominanceFrontiers
    \/ RenameKey
    \/ RenameUse
    \/ NextKey
    \/ FinishSplit

SpecSplit == InitSplit /\ [][NextSplit]_vars
(* The pass goes on while it has a step to take: it is sequential code that *)
(* nothing else suspends.                                                    *)
SpecSplitFair == SpecSplit /\ WF_vars(NextSplit)

----------------------------------------------------------------------------
(* What splitting leaves behind.                                             *)

SplitDone == pc = "split"
NewNames(v) ==
    IF RenamedIndex(renamed, v) = 0 THEN {}
    ELSE Range(renamed[RenamedIndex(renamed, v)].new_names)
PostCallCopies(v) == {n \in NewNames(v) : ~is_param(n)}
(* The definition of v comes before the use u on every path to u. *)
DefDominates(v, u) ==
    IF is_param(v)
    THEN Dominates(CurrentFunction, first_inst(CurrentFunction, param_ebb(v)), u)
    ELSE result_inst(v) # u /\ Dominates(CurrentFunction, result_inst(v), u)
(* The post-call copy c of v reaches u: a path leads from c to u that does  *)
(* not define v again.                                                      *)
CopyReaches(v, c, u) ==
    u \in ReachAvoiding(CurrentFunction,
                        Succs(CurrentFunction, result_inst(c)) \ {result_inst(v)},
                        {result_inst(v)})
ReachedOnlyByOriginal(v, u) == \A c \in PostCallCopies(v) : ~CopyReaches(v, c, u)
(* The arguments the function had when the pass began. *)
OrigUses == {uk \in (1..Len(func0.insts)) \X (1..2) : uk[2] <= Len(func0.insts[uk[1]].args)}

(* C1: after split_across_calls SSA is preserved: the definition of every   *)
(* argument of every instruction dominates the instruction; an argument     *)
(* that only the original definition reaches is still the original value;   *)
(* every other argument that was a renamed value is a post-call copy or an  *)
(* inserted EBB parameter of that value.                                    *)
C1_SsaIsPreserved ==
    SplitDone =>
        /\ \A u \in AllInsts(CurrentFunction) : \A a \in Range(insts[u].args) : DefDominates(a, u)
        /\ \A uk \in OrigUses :
              IF ReachedOnlyByOriginal(func0.insts[uk[1]].args[uk[2]], uk[1])
              THEN insts[uk[1]].args[uk[2]] = func0.insts[uk[1]].args[uk[2]]
              ELSE insts[uk[1]].args[uk[2]] \in NewNames(func0.insts[uk[1]].args[uk[2]])

(* The EBB parameters the pass inserted, as <<ebb, position>>. *)
InsertedParams ==
    {ej \in Range(layout) \X (1..3) :
        Len(func0.ebbParams[ej[1]]) < ej[2] /\ ej[2] <= Len(ebbParams[ej[1]])}
(* The renamed value the inserted parameter p stands for. *)
PhiOf(p) == CHOOSE v \in 1..Len(vtype) : p \in NewNames(v)
(* The branch b passes a name of the parameter's value at position j. *)
SuppliesParam(b, e, j) ==
    /\ insts[b].dest = e
    /\ j <= Len(inst_variable_args(insts[b]))
    /\ inst_variable_args(insts[b])[j] \in {PhiOf(ebbParams[e][j])} \cup NewNames(PhiOf(ebbParams[e][j]))

(* C5: after splitting every predecessor branch of an EBB passes, for each  *)
(* parameter the pass inserted, one argument at the parameter's position,   *)
(* and every branch passes as many arguments as its target has parameters.  *)
C5_PredecessorsSupplyArguments ==
    SplitDone =>
        /\ \A ej \in InsertedParams : \A b \in Range(PredInsts(ej[1])) :
              SuppliesParam(b, ej[1], ej[2])
        /\ \A b \in AllInsts(CurrentFunction) :
              is_branch(insts[b].op) =>
                  Len(inst_variable_args(insts[b])) = Len(ebbParams[insts[b].dest])
(* Two renamed values have a parameter each on an EBB with two predecessors. *)
C5_Witness ==
    /\ SplitDone
    /\ \E e \in Range(layout) :
          /\ Len(cfg_preds[e]) = 2
          /\ {<<e, 1>>, <<e, 2>>} \subseteq InsertedParams
          /\ PhiOf(ebbParams[e][1]) # PhiOf(ebbParams[e][2])

(* insert_temps and collect_uses are over, no use has been renamed yet. *)
TempsInserted == pc = "compute_bbgraph"
Calls0 == {c \in AllInsts(func0) : is_call(func0.insts[c].op)}
(* The values the pass is to carry across call c, in the tracker's order. *)
Carried(c) == SelectSeq(liveness.throughs[c], LAMBDA v : liveness.is_reg[v])
CallsAcross(v) == {c \in Calls0 : v \in Range(Carried(c))}
IsNewCopy(i, arg) ==
    i > Len(func0.insts) /\ insts[i].op = "copy" /\ insts[i].args = <<arg>>
(* Around call c at position p of code: copy j before the call copies      *)
(* value j, copy j after it copies the result of copy j before it and is   *)
(* a new name of value j.                                                   *)
CopiesAround(c, code, p) ==
    /\ p > Len(Carried(c)) /\ p + Len(Carried(c)) <= Len(code)
    /\ \A j \in 1..Len(Carried(c)) :
          /\ IsNewCopy(code[p - Len(Carried(c)) + j - 1], Carried(c)[j])
          /\ IsNewCopy(code[p + j], insts[code[p - Len(Carried(c)) + j - 1]].res[1])
          /\ insts[code[p + j]].res[1] \in NewNames(Carried(c)[j])
RECURSIVE SumCarried(_)
SumCarried(cs) ==
    IF cs = {} THEN 0
    ELSE Len(Carried(CHOOSE c \in cs : TRUE)) + SumCarried(cs \ {CHOOSE c \in cs : TRUE})

BBs == {b \in AllInsts(CurrentFunction) : is_branch(insts[b].op)}
(* The first BBs of the EBBs with two or more predecessors. *)
JoinBBs ==
    {n \in BBs : /\ Len(cfg_preds[bb_ebb(n)]) >= 2
                 /\ \A b \in BBs : bb_ebb(b) = bb_ebb(n) => inst_pp(n) <= inst_pp(b)}
(* BB b dominates BB p: the branch that ends b is on every path to the     *)
(* branch that ends p.                                                      *)
BBDominates(b, p) == Dominates(CurrentFunction, b, p)
(* n is in the dominance frontier of b. *)
InFrontier(b, n) ==
    /\ n \in JoinBBs
    /\ \E p \in Range(PredInsts(bb_ebb(n))) : BBDominates(b, p)
    /\ ~(b # n /\ BBDominates(b, n))
DFPanicked == pc = "panic" /\ bbgraph # <<>> /\ df = <<>>

(* C19: compute_dominance_frontiers does not panic, and what it returns is *)
(* the dominance frontier of the BB graph: n is in DF(b) exactly when n is *)
(* the first BB of an EBB with two or more predecessors, b dominates a     *)
(* predecessor BB of n and b does not strictly dominate n.                 *)
C19_DominanceFrontiers ==
    /\ ~DFPanicked
    /\ df # <<>> => \A b \in BBs : \A n \in BBs : n \in df[b] <=> InFrontier(b, n)

(* The EBB parameters among the new names of renamed value k, on EBB e. *)
PhisOn(k, e) ==
    {j \in 1..Len(renamed[k].new_names) :
        renamed[k].new_names[j] \in Range(ebbParams[e])}
(* The branches to the EBBs that got a parameter for renamed value k. *)
PhiPreds(k) ==
    {cfg_preds[e][j].inst : e \in {e \in Range(layout) : PhisOn(k, e) # {}},
                            j \in 1..2}
    \cap {i \in 1..Len(insts) : is_branch(insts[i].op)}
AtMostOnePhi ==
    \A k \in 1..Len(renamed) : \A e \in Range(layout) : Cardinality(PhisOn(k, e)) <= 1
(* While the worklist of a key is worked off, the predecessors of every    *)
(* parameter made for it are on the worklist; when the key is finished,    *)
(* every entry of the worklist has been taken.                              *)
PhiUsesQueued ==
    /\ pc = "worklist" => PhiPreds(rn.key) \subseteq Range(rn.worklist)
    /\ pc \in {"rename_uses", "split"} /\ rn.key > 1 =>
          /\ PhiPreds(rn.key - 1) \subseteq Range(rn.worklist)
          /\ rn.i = Len(rn.worklist) + 1

(* C20: the worklist of every renamed value is worked off: an EBB gets at  *)
(* most one parameter for a renamed value, the predecessor branches of     *)
(* every inserted parameter are put on the worklist and taken from it, and *)
(* the loop over the worklist comes to its end.                             *)
C20_WorklistTerminates ==
    /\ [](AtMostOnePhi /\ PhiUsesQueued)
    /\ (pc = "worklist") ~> (pc = "rename_uses")
(* A key is finished whose worklist grew by the predecessors of a loop     *)
(* header.                                                                  *)
C20_Witness ==
    /\ pc = "rename_uses" /\ rn.key > 1
    /\ PhiPreds(rn.key - 1) # {}
    /\ \E e \in Range(layout) :
          PhisOn(rn.key - 1, e) # {} /\ \E j \in 1..Len(cfg_preds[e]) : cfg_preds[e][j].ebb = e

(* The use that rename_uses takes from the worklist next, the value being  *)
(* renamed and its new names.                                               *)
UseInst == rn.worklist[rn.i]
UseName == renamed[rn.key].value
UseNames == Range(renamed[rn.key].new_names)
(* The BB of an instruction: the first branch of its EBB at or after it. *)
BBOf(i) ==
    CHOOSE b \in BBs :
        /\ bb_ebb(b) = bb_ebb(i) /\ inst_pp(i) <= inst_pp(b)
        /\ \A c \in BBs : bb_ebb(c) = bb_ebb(i) /\ inst_pp(i) <= inst_pp(c)
                              => inst_pp(b) <= inst_pp(c)
(* Where a new name is defined: an EBB parameter at the top of its EBB. *)
DefBB(n) ==
    IF is_param(n) THEN BBOf(first_inst(CurrentFunction, param_ebb(n)))
    ELSE BBOf(result_inst(n))
DefPP(n) == IF is_param(n) THEN 0 ELSE inst_pp(result_inst(n))
(* The new names defined in BB b that count for the use. *)
Counting(b) ==
    {n \in UseNames : /\ DefBB(n) = b
                      /\ b = BBOf(UseInst) => DefPP(n) < inst_pp(UseInst)}
(* The chain of BB b: b and the BBs that dominate it. *)
StrictDoms(b) == {d \in BBs \ {b} : BBDominates(d, b)}
ChainOf(b) == {b} \cup StrictDoms(b)
(* The walk ends at b: b holds a definition, is in the IDF, or is the top. *)
Stops(b) == Counting(b) # {} \/ StrictDoms(b) = {} \/ b \in rn.idf
StopBB ==
    CHOOSE b \in ChainOf(BBOf(UseInst)) :
        /\ Stops(b)
        /\ \A c \in ChainOf(BBOf(UseInst)) \ {b} : BBDominates(b, c) => ~Stops(c)
Greatest(S) == CHOOSE n \in S : \A n2 \in S : DefPP(n2) <= DefPP(n)
(* The EBB that gets a parameter for the use, 0 when none does. *)
NewParamAt ==
    IF Counting(StopBB) = {} /\ StrictDoms(StopBB) # {} THEN bb_ebb(StopBB) ELSE 0
(* The definition the use is to name, 0 when it keeps the original value. *)
Redefinition ==
    IF Counting(StopBB) # {} THEN Greatest(Counting(StopBB))
    ELSE IF NewParamAt # 0 THEN Len(vtype) + 1
    ELSE 0
(* One step of the worklist does what the walk from the use asks for. *)
RenamesAsFound ==
    /\ \A k \in 1..Len(insts[UseInst].args) :
          insts'[UseInst].args[k] =
              IF insts[UseInst].args[k] = UseName /\ Redefinition # 0
              THEN Redefinition ELSE insts[UseInst].args[k]
    /\ ebbParams' = IF NewParamAt # 0
                     THEN [ebbParams EXCEPT ![NewParamAt] = Append(@, Len(vtype) + 1)]
                     ELSE ebbParams
    /\ renamed'[rn.key].new_names =
          IF NewParamAt # 0 THEN Append(renamed[rn.key].new_names, Len(vtype) + 1)
          ELSE renamed[rn.key].new_names
    /\ NewParamAt = 0 => \A i \in 1..Len(insts) : i # UseInst => insts'[i] = insts[i]

(* C22: for every use on the worklist find_redefinition walks up the chain  *)
(* of immediate dominators from the BB of the use. From the first BB that   *)
(* holds a new name (in the BB of the use: one defined before the use) the  *)
(* use gets the one defined last; a BB without one that has a dominator and *)
(* is in the IDF gets a new EBB parameter, which the use gets; at the top   *)
(* of the chain the use keeps the original value.                           *)
C22_FindRedefinition ==
    [][(pc = "worklist" /\ rn.i <= Len(rn.worklist)) =>
           pc' = "worklist" /\ rn'.i = rn.i + 1 /\ RenamesAsFound]_vars
(* A use has been renamed to the later of two new names of one BB, after a  *)
(* use for which an EBB got a parameter.                                    *)
C22_Witness ==
    /\ pc = "worklist" /\ rn.i > 1
    /\ \E n \in UseNames : is_param(n)
    /\ \E n \in UseNames : \E n2 \in UseNames :
          /\ ~is_param(n) /\ ~is_param(n2) /\ DefBB(n) = DefBB(n2)
          /\ DefPP(n2) < DefPP(n)
          /\ n \in Range(insts[rn.worklist[rn.i - 1]].args)

----------------------------------------------------------------------------
(* What the allocated code does: fill loads a slot into a register, spill   *)
(* stores a register into a slot. A store is [slot, reg]: what every stack  *)
(* slot and every register unit holds, as symbolic contents.                *)

Done == pc = "done"
Values == 1..Len(vtype)
LaidOut == AllInsts(CurrentFunction)
DefInst(v) == IF \E i \in LaidOut : v \in Range(insts[i].res)
              THEN CHOOSE i \in LaidOut : v \in Range(insts[i].res) ELSE 0
IsStack(v) == locations[v].k = "Stack"
IsReg(v) == locations[v].k = "Reg"

InitialStore == [slot |-> [s \in 1..num_slots |-> s],
                 reg  |-> [r \in allocatable_registers |-> 0]]
ExecInst(st, i) ==
    CASE insts[i].op = "fill" /\ IsStack(insts[i].args[1]) /\ IsReg(insts[i].res[1]) ->
           [st EXCEPT !.reg[locations[insts[i].res[1]].n] =
                          st.slot[locations[insts[i].args[1]].n]]
      [] insts[i].op = "spill" /\ IsReg(insts[i].args[1]) /\ IsStack(insts[i].res[1]) ->
           [st EXCEPT !.slot[locations[insts[i].res[1]].n] =
                          st.reg[locations[insts[i].args[1]].n]]
      [] OTHER -> st
RECURSIVE ExecSeq(_, _, _)
ExecSeq(st, code, i) ==
    IF i > Len(code) THEN st ELSE ExecSeq(ExecInst(st, code[i]), code, i + 1)

(* The branches whose EBB arguments the allocator has passed: the visited    *)
(* ones and the jumps of the blocks it made.                                 *)
PassedBranches ==
    {b \in LaidOut : /\ is_branch(insts[b].op) /\ insts[b].dest # 0
                     /\ (b \in Range(visits) \/ b > Len(func0.insts))}
NumPassed(b) == Min({Len(ebbParams[insts[b].dest]), Len(inst_variable_args(insts[b]))})
(* The 2n instructions before branch b: its fill/spill pairs. *)
PairsOf(b) ==
    LET code == ebbInsts[inst_ebb(ebbInsts, b)]
        at   == IndexOf(code, b)
    IN SubSeq(code, at - 2 * NumPassed(b), at - 1)
(* The argument that pair k of branch b passes: the fill's operand. *)
PassedArg(b, k) == insts[PairsOf(b)[2 * k - 1]].args[1]
StackPassing(b) ==
    \A k \in 1..NumPassed(b) :
        IsStack(PassedArg(b, k)) /\ IsStack(ebbParams[insts[b].dest][k])

----------------------------------------------------------------------------
(* C2: after Minimal::run every value of the function, the results of       *)
(* skipped ghost instructions included, has a location other than           *)
(* Unassigned; a non-flag value is on the stack unless it is the result of  *)
(* a fill or the operand of a spill, which are in a register.               *)
C2_EveryValueHasAHome ==
    Done => \A v \in Values :
              /\ locations[v].k # "Unassigned"
              /\ ~is_flags(vtype[v]) =>
                    IF \/ (DefInst(v) # 0 /\ insts[DefInst(v)].op = "fill")
                       \/ \E i \in LaidOut : insts[i].op = "spill" /\ insts[i].args[1] = v
                    THEN IsReg(v) ELSE IsStack(v)

(* C3: executing the fill/spill pairs before a branch, in order, leaves the *)
(* slot of every target parameter p_k holding what argument k held before   *)
(* the first pair ran.                                                      *)
C3_PairsPassArguments ==
    \A b \in PassedBranches :
        StackPassing(b) =>
            \A k \in 1..NumPassed(b) :
                ExecSeq(InitialStore, PairsOf(b), 1).slot[
                        locations[ebbParams[insts[b].dest][k]].n]
                    = InitialStore.slot[locations[PassedArg(b, k)].n]

(* The side exits of the input function: conditional branches to an EBB     *)
(* with parameters.                                                          *)
is_conditional(op) == op \in {"brz", "brnz", "br_icmp", "brif", "brff"}
OrigInsts == UNION {Range(func0.ebbInsts[e]) : e \in 1..Len(func0.ebbInsts)}
SideExits0 ==
    {b \in OrigInsts : /\ is_conditional(func0.insts[b].op)
                       /\ Len(func0.ebbParams[func0.insts[b].dest]) > 0}
(* Operand k of b is the input's operand, or the fill of it. *)
SameOperand(b, k) ==
    \/ insts[b].args[k] = func0.insts[b].args[k]
    \/ /\ DefInst(insts[b].args[k]) # 0
       /\ insts[DefInst(insts[b].args[k])].op = "fill"
       /\ insts[DefInst(insts[b].args[k])].args = <<func0.insts[b].args[k]>>
(* EBB e is n fill/spill pairs and a jump to target: pair k fills argument  *)
(* k of the input's branch b, and the jump passes what pair k spilled.      *)
IsSplitBlock(e, b, target) ==
    LET code == ebbInsts[e]
        orig == inst_variable_args(func0.insts[b])
        n    == Min({Len(orig), Len(func0.ebbParams[target])})
    IN /\ Len(code) = 2 * n + 1
       /\ insts[code[Len(code)]].op = "jump"
       /\ insts[code[Len(code)]].dest = target
       /\ Len(insts[code[Len(code)]].args) = Len(orig)
       /\ \A k \in 1..n :
            /\ insts[code[2 * k - 1]].op = "fill"
            /\ insts[code[2 * k - 1]].args = <<orig[k]>>
            /\ insts[code[2 * k]].op = "spill"
            /\ insts[code[2 * k]].args = insts[code[2 * k - 1]].res
            /\ insts[code[Len(code)]].args[k] = insts[code[2 * k]].res[1]
       /\ \A k \in (n + 1)..Len(orig) : insts[code[Len(code)]].args[k] = orig[k]

(* C4: after allocation no conditional branch with an EBB argument targets  *)
(* an EBB with parameters; a side exit to such a target goes, with no EBB   *)
(* arguments and its condition operands kept, to a fresh EBB that holds     *)
(* only the fill/spill pairs and a jump to the original target with the     *)
(* original arguments.                                                      *)
C4_SideExitsAreSplit ==
    Done =>
      /\ \A i \in LaidOut :
            is_conditional(insts[i].op) /\ Len(inst_variable_args(insts[i])) > 0
                => Len(ebbParams[insts[i].dest]) = 0
      /\ \A b \in SideExits0 :
            /\ insts[b].op = func0.insts[b].op
            /\ insts[b].dest > Len(func0.ebbInsts)
            /\ insts[b].dest \in Range(layout)
            /\ ebbParams[insts[b].dest] = <<>>
            /\ Len(insts[b].args) = num_fixed_args(insts[b].op)
            /\ \A k \in 1..Len(insts[b].args) : SameOperand(b, k)
            /\ IsSplitBlock(insts[b].dest, b, func0.insts[b].dest)
            /\ \A i \in LaidOut \ {b} : insts[i].dest # insts[b].dest
C4_Witness ==
    /\ Done
    /\ \E b \in SideExits0 :
          /\ Len(inst_variable_args(func0.insts[b])) > 0
          /\ Len(ebbInsts[insts[b].dest]) > 1

(* C6: after allocation two distinct values on the stack never have the     *)
(* same slot.                                                                *)
C6_SlotsAreUnique ==
    Done => \A v, w \in Values :
              v # w /\ IsStack(v) /\ IsStack(w) => locations[v] # locations[w]

(* Control flow after instruction i that does not pass instruction c again. *)
After(i, c) == ReachAvoiding(CurrentFunction, Succs(CurrentFunction, i) \ {c}, {c})
Copies == {c \in LaidOut : insts[c].op = "copy"}
Uses(v) == {u \in LaidOut : v \in Range(insts[u].args)}
(* A spill stores its slot's own contents when it spills the fill of a     *)
(* value of that slot; any other spill to the slot overwrites it.           *)
StoresBack(w) ==
    /\ DefInst(insts[w].args[1]) # 0
    /\ insts[DefInst(insts[w].args[1])].op = "fill"
    /\ locations[insts[DefInst(insts[w].args[1])].args[1]] = locations[insts[w].res[1]]
SlotWriters(loc) ==
    {w \in LaidOut : /\ insts[w].op = "spill" /\ locations[insts[w].res[1]] = loc
                     /\ ~StoresBack(w)}

(* C7: a copy's result shares the location of its argument and no code is   *)
(* emitted for it; on no execution path does a spill write the shared slot  *)
(* between the copy and a later use of its result.                          *)
C7_CopyAliasingIsSafe ==
    Done => \A c \in Copies :
              /\ locations[insts[c].res[1]] = locations[insts[c].args[1]]
              /\ insts[c] = func0.insts[c]
              /\ IsStack(insts[c].res[1]) =>
                    \A u \in Uses(insts[c].res[1]) :
                        \A w \in SlotWriters(locations[insts[c].res[1]]) :
                            ~(w \in After(c, c) /\ u \in After(w, c))

(* The instructions visit_plain_inst has rewritten. *)
Rewritten ==
    {i \in Range(visits) :
        /\ insts[i].op \notin {"copy", "spill", "fill"}
        /\ Len(operand_constraints(insts[i].enc).ins)
             + Len(operand_constraints(insts[i].enc).outs) > 0}
is_fixed(c) == c.kind \in {"FixedReg", "FixedTied"}
IsFilled(v) == DefInst(v) # 0 /\ insts[DefInst(v)].op = "fill"
IsSpilled(v) == \E i \in LaidOut : insts[i].op = "spill" /\ insts[i].args = <<v>>

(* C8: an operand of a rewritten instruction whose constraint is            *)
(* FixedReg(r) or FixedTied(r) is in Reg(r): the result of the inserted     *)
(* fill for an input, the renamed result that the inserted spill consumes   *)
(* for an output.                                                           *)
C8_FixedOperandsGetTheirRegister ==
    \A i \in Rewritten :
        /\ \A k \in 1..Len(insts[i].args) :
              is_fixed(operand_constraints(insts[i].enc).ins[k]) =>
                /\ locations[insts[i].args[k]]
                      = Reg(operand_constraints(insts[i].enc).ins[k].n)
                /\ ~is_flags(vtype[insts[i].args[k]]) => IsFilled(insts[i].args[k])
        /\ \A k \in 1..Len(insts[i].res) :
              is_fixed(operand_constraints(insts[i].enc).outs[k]) =>
                /\ locations[insts[i].res[k]]
                      = Reg(operand_constraints(insts[i].enc).outs[k].n)
                /\ ~is_flags(vtype[insts[i].res[k]]) => IsSpilled(insts[i].res[k])
C8_Witness ==
    \E i \in Rewritten :
        /\ \E k \in 1..Len(insts[i].args) :
              operand_constraints(insts[i].enc).ins[k].kind = "FixedReg"
        /\ \E j \in Rewritten : \E k \in 1..Len(insts[j].res) :
              /\ operand_constraints(insts[j].enc).outs[k].kind = "FixedReg"
              /\ ~is_flags(vtype[insts[j].res[k]])

(* The results of i that are tied to an input. *)
TiedOuts(i) ==
    {k \in 1..Len(insts[i].res) : operand_constraints(insts[i].enc).outs[k].kind = "Tied"}
TiedInput(i, k) == operand_constraints(insts[i].enc).outs[k].n
Events(ev, reg, k) == {j \in 1..Len(trace) : trace[j] = Ev(ev, reg, k)}
(* Register r is held from its take to the spill of result k. *)
HeldUntilSpill(r, input, k) ==
    \E t \in Events("take", r, 0) : \E sp \in Events("spill", r, k) :
        /\ t < sp
        /\ \E f \in Events("fill", r, input) : t < f /\ f < sp
        /\ \A x \in Events("free", r, 0) : x < t \/ x > sp
LastRewritten ==
    IF visits # <<>> /\ trace # <<>> /\ visits[Len(visits)] \in Rewritten
    THEN {visits[Len(visits)]} ELSE {}

(* C9: a result with constraint Tied(i) gets the register of input i, and   *)
(* that register is not free from the moment it is taken for input i until  *)
(* the spill of the result is placed.                                       *)
C9_TiedResultKeepsTheRegister ==
    /\ \A i \in Rewritten : \A k \in TiedOuts(i) :
          /\ IsReg(insts[i].res[k])
          /\ locations[insts[i].res[k]] = locations[insts[i].args[TiedInput(i, k)]]
    /\ \A i \in LastRewritten : \A k \in TiedOuts(i) :
          HeldUntilSpill(locations[insts[i].res[k]].n, TiedInput(i, k), k)
C9_Witness ==
    \E i \in LastRewritten :
        /\ TiedOuts(i) # {}
        /\ Len(insts[i].args) > 1
        /\ \E r \in GPR : Events("free", r, 0) # {} /\ Events("spill", r, 1) = {}

(* C10: a flags value is never the operand of a fill, never the operand or  *)
(* result of a spill, and never has a stack slot.                           *)
C10_FlagsStayInRegisters ==
    \A v \in Values :
        is_flags(vtype[v]) =>
            /\ ~IsStack(v)
            /\ \A i \in LaidOut :
                  insts[i].op \in {"fill", "spill"} =>
                      v \notin Range(insts[i].args) \cup Range(insts[i].res)

(* The plain instruction rewritten last; trace holds its register events.   *)
LastPlain == {i \in LastRewritten : ~is_branch(insts[i].op)}
StackIns(i) ==
    {k \in 1..Len(insts[i].args) : operand_constraints(insts[i].enc).ins[k].kind = "Stack"}
(* The registers visit_plain_inst takes for instruction i: one for every    *)
(* Reg or Tied input and one for every Reg output.                          *)
NumTaken(i) ==
    Cardinality({k \in 1..Len(insts[i].args) :
                    operand_constraints(insts[i].enc).ins[k].kind \in {"Reg", "Tied"}})
    + Cardinality({k \in 1..Len(insts[i].res) :
                    operand_constraints(insts[i].enc).outs[k].kind = "Reg"})

(* C11: an operand of a plain instruction whose constraint is Stack is left *)
(* as it was, is on the stack, gets no fill, and no register is taken for   *)
(* it.                                                                       *)
C11_StackOperandsStayPut ==
    /\ \A i \in Rewritten : \A k \in StackIns(i) :
          /\ insts[i].args[k] = func0.insts[i].args[k]
          /\ IsStack(insts[i].args[k])
    /\ \A i \in LastPlain : \A k \in StackIns(i) :
          /\ \A r \in allocatable_registers : Events("fill", r, k) = {}
          /\ Cardinality({j \in 1..Len(trace) : trace[j].ev = "take"}) = NumTaken(i)

JumpTables == {i \in Range(visits) : insts[i].op = "indirect_jump_table_br"}
(* The instruction before i in its EBB, 0 when i is first. *)
InstBefore(i) ==
    IF IndexOf(ebbInsts[inst_ebb(ebbInsts, i)], i) = 1 THEN 0
    ELSE ebbInsts[inst_ebb(ebbInsts, i)][IndexOf(ebbInsts[inst_ebb(ebbInsts, i)], i) - 1]

(* C13: the indexed argument of a visited indirect jump-table branch is the *)
(* result of a fill of the original argument that stands directly before   *)
(* the branch, and that result is in a register of the class the operand   *)
(* constraint asks for.                                                     *)
C13_JumpTableIndexIsFilled ==
    \A i \in JumpTables :
        /\ InstBefore(i) # 0
        /\ insts[InstBefore(i)].op = "fill"
        /\ insts[InstBefore(i)].args = <<func0.insts[i].args[1]>>
        /\ insts[i].args[1] = insts[InstBefore(i)].res[1]
        /\ IsReg(insts[i].args[1])
        /\ locations[insts[i].args[1]].n
              \in RegClass(operand_constraints(insts[i].enc).ins[1].rc)

EntryPrepared == pc = "others"
Entry == layout[1]
RegParams == {k \in 1..Len(signature.params) : signature.params[k].location.k = "Reg"}
(* The number of register parameters up to parameter k. *)
RegRank(k) == Cardinality({j \in RegParams : j <= k})
(* Parameter k of the input came in a register: its place is taken by a    *)
(* new value in that register, spill RegRank(k) of the entry EBB stores it  *)
(* under the old name, and the old name has a slot of its own.              *)
RegParamSpilled(k, p, q) ==
    /\ q > Len(func0.vtype) /\ vtype[q] = vtype[p]
    /\ locations[q] = signature.params[k].location
    /\ insts[ebbInsts[Entry][RegRank(k)]].op = "spill"
    /\ insts[ebbInsts[Entry][RegRank(k)]].args = <<q>>
    /\ insts[ebbInsts[Entry][RegRank(k)]].res = <<p>>
    /\ IsStack(p)
    /\ \A w \in Values \ {p} : locations[w] # locations[p]
    /\ \A w \in 1..Len(func0.vtype) : func0.locations[w] # locations[p]

(* C14: after visit_entry_block a parameter with ABI location Reg(r) is    *)
(* replaced in the parameter list by a new value of its type in Reg(r),    *)
(* the entry EBB begins with the spills of the new values to the old       *)
(* names, in parameter order and before the original instructions, and the *)
(* old name has a fresh slot; a parameter with ABI location Stack keeps    *)
(* its location; after allocation the parameter list has the length and    *)
(* the types of the signature.                                              *)
C14_EntryParametersAreSpilled ==
    /\ EntryPrepared =>
          /\ \A k \in 1..Len(signature.params) :
                IF k \in RegParams
                THEN RegParamSpilled(k, func0.ebbParams[Entry][k], ebbParams[Entry][k])
                ELSE /\ ebbParams[Entry][k] = func0.ebbParams[Entry][k]
                     /\ locations[ebbParams[Entry][k]]
                           = func0.locations[func0.ebbParams[Entry][k]]
          /\ SubSeq(ebbInsts[Entry], Cardinality(RegParams) + 1, Len(ebbInsts[Entry]))
                = func0.ebbInsts[Entry]
    /\ EntryPrepared \/ Done =>
          /\ Len(ebbParams[Entry]) = Len(signature.params)
          /\ \A k \in 1..Len(signature.params) :
                vtype[ebbParams[Entry][k]] = signature.params[k].value_type
C14_Witness ==
    /\ EntryPrepared
    /\ Cardinality(RegParams) = 2
    /\ Len(ebbInsts[Entry]) > 2

(* The instructions with results that visit_plain_inst has rewritten. *)
Defining == {i \in Rewritten : func0.insts[i].res # <<>>}
(* The number of non-flag results of i up to result k. *)
SpillRank(i, k) ==
    Cardinality({j \in 1..k : ~is_flags(func0.vtype[func0.insts[i].res[j]])})
InstAfter(i, n) == ebbInsts[inst_ebb(ebbInsts, i)][IndexOf(ebbInsts[inst_ebb(ebbInsts, i)], i) + n]
(* Result k of i was r: i defines the new value q in a register, and spill *)
(* SpillRank(i, k) after i stores q under the name r, which is on the      *)
(* stack.                                                                   *)
ResultSpilled(i, k, r, q) ==
    /\ q > Len(func0.vtype) /\ vtype[q] = vtype[r] /\ IsReg(q)
    /\ IndexOf(ebbInsts[inst_ebb(ebbInsts, i)], i) + SpillRank(i, k)
          <= Len(ebbInsts[inst_ebb(ebbInsts, i)])
    /\ insts[InstAfter(i, SpillRank(i, k))].op = "spill"
    /\ insts[InstAfter(i, SpillRank(i, k))].args = <<q>>
    /\ insts[InstAfter(i, SpillRank(i, k))].res = <<r>>
    /\ IsStack(r)
FlagsResultKept(i, k, r) ==
    /\ insts[i].res[k] = r /\ IsReg(r)
    /\ \A sp \in LaidOut :
          insts[sp].op = "spill" => r \notin Range(insts[sp].args) \cup Range(insts[sp].res)

(* C15: a non-flag result of a rewritten plain instruction keeps its name, *)
(* is defined by a spill directly after the instruction (the spills in     *)
(* result order) and is on the stack, in a slot no other value has when    *)
(* the instruction has just been rewritten; the instruction defines a new  *)
(* value in a register, the operand of that spill. A flags result stays on *)
(* the instruction, in a register, and is not spilled.                      *)
C15_ResultsAreSpilled ==
    /\ \A i \in Defining : \A k \in 1..Len(func0.insts[i].res) :
          IF is_flags(func0.vtype[func0.insts[i].res[k]])
          THEN FlagsResultKept(i, k, func0.insts[i].res[k])
          ELSE ResultSpilled(i, k, func0.insts[i].res[k], insts[i].res[k])
    /\ \A i \in LastRewritten \cap Defining : \A k \in 1..Len(func0.insts[i].res) :
          ~is_flags(func0.vtype[func0.insts[i].res[k]]) =>
              \A w \in Values \ {func0.insts[i].res[k]} :
                  locations[w] # locations[func0.insts[i].res[k]]
(* An instruction with two results has just been rewritten, after one     *)
(* with one result.                                                         *)
C15_Witness ==
    \E i \in LastRewritten \cap Defining :
        /\ Len(func0.insts[i].res) = 2
        /\ \E j \in Defining \ {i} : ~is_flags(func0.vtype[func0.insts[j].res[1]])

(* The instruction the allocator is about to rewrite, if any. *)
AboutToRewrite ==
    {i \in 1..Len(insts) : /\ Visiting(i) /\ ~is_ghost(insts[i].op)
                           /\ insts[i].op \notin {"spill", "fill"}}
(* The jumps of the EBBs made for side exits. *)
NewJumps == {b \in LaidOut : b > Len(func0.insts) /\ insts[b].op = "jump"}

EncodedCalls == {c \in LaidOut : is_call(insts[c].op) /\ ~is_ghost(insts[c].op)}

(* C17: the allocator never gets past a call that is not a ghost: no call  *)
(* is among the instructions it has handled, the cursor never stands on    *)
(* one, and the pass does not finish for a function that has one.          *)
C17_CallsAbortThePass ==
    /\ \A c \in EncodedCalls : c \notin Range(visits) /\ cur_inst # c
    /\ Done => EncodedCalls = {}
(* The pass has panicked at a call with the copies of splitting around it. *)
C17_Witness ==
    /\ pc = "panic" /\ NextInst \in EncodedCalls
    /\ insts[InstBefore(NextInst)].op = "copy"
    /\ insts[InstAfter(NextInst, 1)].op = "copy"

NewEbbs == {e \in Range(layout) : e > Len(func0.ebbInsts)}
LastEbb == layout[Len(layout)]

(* C18: every EBB the allocator makes lies before the last EBB of the      *)
(* layout: the last EBB is the one that was last before allocation, the    *)
(* EBBs of the input keep their order, and the last EBB still ends with    *)
(* the instruction it ended with.                                           *)
C18_NewBlocksBeforeTheLast ==
    /\ LastEbb = func0.layout[Len(func0.layout)]
    /\ \A e \in NewEbbs : IndexOf(layout, e) < Len(layout)
    /\ SelectSeq(layout, LAMBDA e : e <= Len(func0.ebbInsts)) = func0.layout
    /\ ebbInsts[LastEbb][Len(ebbInsts[LastEbb])]
          = func0.ebbInsts[LastEbb][Len(func0.ebbInsts[LastEbb])]
(* Three edges are split, one of them in the last EBB, which ends with a   *)
(* fallthrough_return.                                                      *)
C18_Witness ==
    /\ Done /\ Cardinality(NewEbbs) = 3
    /\ insts[ebbInsts[LastEbb][Len(ebbInsts[LastEbb])]].op = "fallthrough_return"
    /\ \E b \in Range(ebbInsts[LastEbb]) : insts[b].dest \in NewEbbs

----------------------------------------------------------------------------
(* The register set over the events of one handler. s is [ok, held]: held   *)
(* are the units taken and not yet freed, ok is FALSE once a unit was taken *)
(* while held or freed while not held.                                      *)
RECURSIVE Replay(_, _, _, _)
Replay(tr, j, n, s) ==
    IF j > n THEN s
    ELSE IF tr[j].ev \in {"take", "take_specific"}
    THEN Replay(tr, j + 1, n, [ok |-> s.ok /\ tr[j].reg \notin s.held,
                               held |-> s.held \cup {tr[j].reg}])
    ELSE IF tr[j].ev = "free"
    THEN Replay(tr, j + 1, n, [ok |-> s.ok /\ tr[j].reg \in s.held,
                               held |-> s.held \ {tr[j].reg}])
    ELSE Replay(tr, j + 1, n, s)
HeldAt(n) == Replay(trace, 1, n, [ok |-> TRUE, held |-> {}])
(* The branch handled last; the spills among its events are those of its    *)
(* fill/spill pairs.                                                         *)
LastBranch ==
    IF visits # <<>> /\ is_branch(insts[visits[Len(visits)]].op)
    THEN {visits[Len(visits)]} ELSE {}

(* C21: between two instructions the free set is the set of allocatable     *)
(* registers; within the handling of one instruction no register is taken   *)
(* while it is taken, every register taken is freed once, and the register  *)
(* of a fill/spill pair of a branch is freed before the next pair.          *)
C21_NoRegisterIsHeld ==
    /\ pc \in {"run", "done"} => regs = allocatable_registers
    /\ HeldAt(Len(trace)) = [ok |-> TRUE, held |-> {}]
    /\ \A b \in LastBranch : \A j \in 1..Len(trace) :
          trace[j].ev = "spill" =>
              /\ j < Len(trace) /\ trace[j + 1] = Ev("free", trace[j].reg, 0)
              /\ HeldAt(j + 1).held = {}
(* A conditional branch has been handled that took a fixed register for its *)
(* own operand and a register for the pair of its EBB argument.             *)
C21_Witness ==
    /\ pc = "run" /\ LastBranch # {}
    /\ \E j \in 1..Len(trace) : trace[j].ev = "take_specific"
    /\ \E j \in 1..Len(trace) : trace[j].ev = "spill"

(* The operands of i that are in a register: all but the Stack inputs. *)
RegIns(i) == (1..Len(insts[i].args)) \ StackIns(i)
(* The inputs of i that hold their register until the results are spilled. *)
TiedIns(i) ==
    {k \in RegIns(i) : operand_constraints(insts[i].enc).ins[k].kind \in {"Tied", "FixedTied"}}
FixedRegOuts(i) ==
    {k \in 1..Len(insts[i].res) : operand_constraints(insts[i].enc).outs[k].kind = "FixedReg"}

RewrittenPlain == {i \in Rewritten : ~is_branch(insts[i].op)}

Original(i) == i <= Len(func0.insts)
NotGhost0(i) == ~is_ghost(func0.insts[i].op)
RECURSIVE InOrder(_)
InOrder(k) ==
    IF k = 0 THEN <<>>
    ELSE InOrder(k - 1) \o SelectSeq(func0.ebbInsts[topo[k]], NotGhost0)
Handled0 == SelectSeq(visits, Original)
IsPrefix(s, t) == Len(s) <= Len(t) /\ s = SubSeq(t, 1, Len(s))
(* The instruction that followed i in its EBB before the pass, 0 for none. *)
Succ0(i) ==
    LET code == func0.ebbInsts[inst_ebb(func0.ebbInsts, i)]
    IN IF IndexOf(code, i) < Len(code) THEN code[IndexOf(code, i) + 1] ELSE 0
(* The side exit that was made to jump to the new EBB e. *)
SideExitTo(e) == CHOOSE s \in LaidOut : is_branch(insts[s].op) /\ insts[s].dest = e
(* The EBB of new jump b holds one fill/spill pair for every argument that *)
(* the side exit had, in order, and then b, which passes the spilled names. *)
PairsOnce(b) ==
    LET e == inst_ebb(ebbInsts, b)
        s == SideExitTo(e)
        a == inst_variable_args(func0.insts[s])
    IN /\ e \in NewEbbs /\ e \notin Range(topo)
       /\ Original(s) /\ s \in Range(visits)
       /\ Range(ebbInsts[e]) \cap Range(visits) = {}
       /\ Len(ebbInsts[e]) = 2 * Len(a) + 1 /\ ebbInsts[e][2 * Len(a) + 1] = b
       /\ Len(insts[b].args) = Len(a)
       /\ \A k \in 1..Len(a) :
             /\ insts[ebbInsts[e][2 * k - 1]].op = "fill"
             /\ insts[ebbInsts[e][2 * k - 1]].args = <<a[k]>>
             /\ insts[ebbInsts[e][2 * k]].op = "spill"
             /\ insts[ebbInsts[e][2 * k]].args = insts[ebbInsts[e][2 * k - 1]].res
             /\ insts[ebbInsts[e][2 * k]].res = <<insts[b].args[k]>>
HandledOnce ==
    /\ Cardinality(Range(visits)) = Len(visits)
    /\ IsPrefix(Handled0, InOrder(Len(topo)))
    /\ pc = "done" =>
          /\ Handled0 = InOrder(Len(topo))
          /\ \A i \in AllInsts(func0) : NotGhost0(i) => i \in Range(visits)
    /\ \A i \in Range(visits) : ~Original(i) => insts[i].op \in {"fill", "spill"}
    /\ \A b \in NewJumps : PairsOnce(b)
CursorGoesOn ==
    \A i \in 1..Len(insts) :
        Visiting(i) /\ pc' = "run" =>
            /\ Original(i) => NextInst' = Succ0(i)
            /\ insts[i].op \in {"fill", "spill"} =>
                  UNCHANGED <<funcVars, regs>> /\ visits' = Append(visits, i)

(* C24: the pass hands every instruction of the input that is not a ghost   *)
(* to its handler once, in the order of the input, and all of them when it  *)
(* finishes; of the instructions it made it comes only to fills and spills, *)
(* which it leaves as they are; the jump of a new EBB, which the order does *)
(* not hold, has its fill/spill pairs once; after any instruction the       *)
(* cursor is before the instruction that followed it in the input.          *)
C24_RewrittenOnce == [](HandledOnce) /\ [][CursorGoesOn]_vars
(* The pass has finished: it skipped a spill of the entry block, spilled a  *)
(* result before another instruction, and split an edge with an argument.   *)
C24_Witness ==
    /\ pc = "done"
    /\ \E i \in Range(visits) : ~Original(i) /\ insts[i].op = "spill"
    /\ \E i \in RewrittenPlain : IsSpilled(insts[i].res[1]) /\ Succ0(i) # 0
    /\ \E b \in NewJumps : insts[b].args # <<>>

====
